---- MODULE Spec2Model ----
(***************************************************************************)
(* Model of the 28-day challenge progress engine: ChallengeService         *)
(* (app/services/challenge_service.py) and the challenge API handlers      *)
(* (app/routes/api.py).                                                    *)
(*                                                                         *)
(* Python dicts are modelled as functions whose DOMAIN is the set of keys  *)
(* present, so dict.get(key, default) is Get(d, key, default).  Python     *)
(* lists are sequences.  Strings that the code takes apart (day keys) are  *)
(* sequences of one-character strings; strings that are only compared      *)
(* (problem ids, statuses) are TLA+ strings.                               *)
(***************************************************************************)
EXTENDS Integers, Sequences, FiniteSets, TLC

VARIABLES
    challenge_data,   \* ChallengeService.challenge_data: the loaded catalog
    now,              \* datetime.now(): [ord: calendar day, tod: time of day]
    call,             \* the service call in progress: [fn, arg, pc, ret]
    store             \* the user's record in the Clerk metadata store

vars == <<challenge_data, now, call, store>>

----------------------------------------------------------------------------
(* Bounds of the model *)

MaxLen == 3          \* longest days_completed list drawn by enumeration
MaxDay == 4          \* largest day number drawn by enumeration

----------------------------------------------------------------------------
(* Python helpers *)

\* dict.get(key, default)
Get(d, key, default) == IF key \in DOMAIN d THEN d[key] ELSE default

\* x in list
InList(x, list) == \E i \in 1..Len(list) : list[i] = x

Range(list) == {list[i] : i \in 1..Len(list)}

Min(a, b) == IF a < b THEN a ELSE b
Max(a, b) == IF a > b THEN a ELSE b

\* all sequences over S of length at most n
SeqsUpTo(S, n) == UNION {[1..k -> S] : k \in 0..n}

----------------------------------------------------------------------------
(* The user record of the metadata store *)

\* update_user_metadata sends the same dict as private and as public metadata
UserWith(metadata) ==
    [id |-> "user_1", private_metadata |-> metadata, public_metadata |-> metadata]

\* a signed-up user who has no challenge data yet
NewUser == UserWith(<<>>)

----------------------------------------------------------------------------
(* ChallengeService.calculate_streak *)

\* a loop that forgets to break at the first missing day
RECURSIVE StreakLoopNoBreak(_, _, _)
StreakLoopNoBreak(days_completed, day, streak) ==
    IF day < 1 THEN streak
    ELSE StreakLoopNoBreak(days_completed, day - 1,
                           IF InList(day, days_completed) THEN streak + 1 ELSE streak)

\* for day in range(current_day, 0, -1): count until the first miss
RECURSIVE StreakLoop(_, _, _)
StreakLoop(days_completed, day, streak) ==
    IF day < 1 THEN streak
    ELSE IF InList(day, days_completed)
         THEN StreakLoop(days_completed, day - 1, streak + 1)
         ELSE streak

calculate_streak(days_completed, current_day) ==
    IF days_completed = <<>> THEN 0
    ELSE StreakLoop(days_completed, current_day, 0)

----------------------------------------------------------------------------
(* Catalog *)

EmptyCatalog == [days |-> <<>>, achievements |-> <<>>, point_values |-> <<>>]

----------------------------------------------------------------------------
(* Specification of calculate_streak over drawn inputs *)

Idle == [ord |-> 0, tod |-> 0]

FullRun == [i \in 1..28 |-> i]

StreakLists ==
    SeqsUpTo(0..MaxDay, MaxLen)
      \cup {FullRun, [i \in 1..28 |-> 29 - i], <<1, 2, 4, 5>>, <<1, 1, 2, 2, 3, 3>>}

StreakInputs ==
    {[days_completed |-> d, current_day |-> c] :
        d \in StreakLists, c \in (-1..(MaxDay + 1)) \cup {27, 28, 29}}

InitStreak ==
    /\ challenge_data = EmptyCatalog
    /\ now = Idle
    /\ store = NewUser
    /\ call \in {[fn |-> "calculate_streak", arg |-> a, pc |-> "called", ret |-> 0] :
                    a \in StreakInputs}

ReturnCalculateStreak ==
    /\ call.fn = "calculate_streak"
    /\ call.pc = "called"
    /\ call' = [call EXCEPT !.pc = "returned",
                            !.ret = calculate_streak(call.arg.days_completed,
                                                     call.arg.current_day)]
    /\ UNCHANGED <<challenge_data, now, store>>

NextStreak == ReturnCalculateStreak

SpecStreak == InitStreak /\ [][NextStreak]_vars

StreakReturned == call.fn = "calculate_streak" /\ call.pc = "returned"

\* the length k of the run c, c-1, ..., c-k+1 of days >= 1 that are all in the
\* list, ended by a day that is below 1 or missing
IsRunLength(k, days, c) ==
    /\ \A i \in 0..(k - 1) : c - i >= 1 /\ (c - i) \in Range(days)
    /\ ~(c - k >= 1 /\ (c - k) \in Range(days))

\* C1: calculate_streak returns the length of the maximal run of completed
\* days that ends at current_day and walks backward, stopping at the first
\* missing day or below day 1; it is 0 when current_day is not completed or
\* is <= 0, and 28 for days 1..28 with current_day 28.
C1_StreakIsMaximalRun ==
    StreakReturned =>
        /\ call.ret \in Nat
        /\ IsRunLength(call.ret, call.arg.days_completed, call.arg.current_day)
        /\ (~InList(call.arg.current_day, call.arg.days_completed) => call.ret = 0)
        /\ (call.arg.current_day <= 0 => call.ret = 0)
        /\ (call.arg.days_completed = FullRun /\ call.arg.current_day = 28
               => call.ret = 28)

\* a gap breaks the streak: [1,2,4,5] on day 5 gives 2
C1_Witness ==
    /\ StreakReturned
    /\ call.arg.days_completed = <<1, 2, 4, 5>>
    /\ call.arg.current_day = 5
    /\ call.ret = 2

----------------------------------------------------------------------------
(* ChallengeService.calculate_current_day *)

(* A start_date value is one of                                            *)
(*   [kind |-> "iso", ord, tod, suffix]  a well-formed ISO timestamp of    *)
(*        calendar day ord, time of day tod, zone suffix "", "Z", "+00:00" *)
(*   [kind |-> "text", text]             a string that is no ISO timestamp *)
(*   [kind |-> "none"]                   None (no string at all)           *)
(* A datetime is [ord, tod, tz]; a date is its ord.                        *)

TicksPerDay == 2     \* times of day told apart by the model: 0 = morning, 1 = evening

Ok(v) == [raised |-> "", value |-> v]
Raise(e) == [raised |-> e, value |-> 0]

\* start_date.replace('Z', '+00:00')
ReplaceZ(start_date) ==
    IF start_date.kind = "none" THEN Raise("AttributeError")
    ELSE IF start_date.kind = "iso" /\ start_date.suffix = "Z"
         THEN Ok([start_date EXCEPT !.suffix = "+00:00"])
         ELSE Ok(start_date)

\* datetime.fromisoformat(s)
FromIsoFormat(s) ==
    IF s.kind = "iso" /\ s.suffix \in {"", "+00:00"}
    THEN Ok([ord |-> s.ord, tod |-> s.tod, tz |-> s.suffix])
    ELSE Raise("ValueError")

\* datetime.date()
DateOf(dt) == dt.ord

\* a difference taken between the datetimes instead of between their dates
DeltaOfDatetimes(start, n) ==
    (((n.ord * TicksPerDay + n.tod) - (start.ord * TicksPerDay + start.tod))
        \div TicksPerDay) + 1

\* delta = (today - start_day).days + 1
Delta(start, n) == (DateOf(n) - DateOf(start)) + 1

calculate_current_day(start_date, n) ==
    LET replaced == ReplaceZ(start_date)
        parsed   == FromIsoFormat(replaced.value)
    IN  IF replaced.raised \in {"ValueError", "AttributeError"} THEN Ok(1)
        ELSE IF replaced.raised # "" THEN replaced
        ELSE IF parsed.raised \in {"ValueError", "AttributeError"} THEN Ok(1)
        ELSE IF parsed.raised # "" THEN parsed
        ELSE Ok(Min(Max(Delta(parsed.value, n), 1), 28))

----------------------------------------------------------------------------
(* Specification of calculate_current_day over drawn inputs *)

DayHorizon == 30     \* start dates lie up to DayHorizon days before day 0

Suffixes == {"", "Z", "+00:00"}

StartDates ==
    {[kind |-> "iso", ord |-> o, tod |-> t, suffix |-> z] :
        o \in (-DayHorizon)..3, t \in 0..(TicksPerDay - 1), z \in Suffixes}
      \cup {[kind |-> "text", text |-> x] : x \in {"", "None", "not-a-date", "2025-01"}}
      \cup {[kind |-> "none"]}

Nows == {[ord |-> o, tod |-> t] : o \in 0..1, t \in 0..(TicksPerDay - 1)}

InitCurrentDay ==
    /\ challenge_data = EmptyCatalog
    /\ now \in Nows
    /\ store = NewUser
    /\ call \in {[fn |-> "calculate_current_day", arg |-> a, pc |-> "called", ret |-> Ok(0)] :
                    a \in StartDates}

ReturnCalculateCurrentDay ==
    /\ call.fn = "calculate_current_day"
    /\ call.pc = "called"
    /\ call' = [call EXCEPT !.pc = "returned",
                            !.ret = calculate_current_day(call.arg, now)]
    /\ UNCHANGED <<challenge_data, now, store>>

NextCurrentDay == ReturnCalculateCurrentDay

SpecCurrentDay == InitCurrentDay /\ [][NextCurrentDay]_vars

CurrentDayReturned == call.fn = "calculate_current_day" /\ call.pc = "returned"

\* the number of calendar days from the start's calendar date to today's
DaysSince(start_date) == now.ord - start_date.ord

\* C2: calculate_current_day returns min(max(d + 1, 1), 28) for d the number of
\* calendar days from the start date to today (time of day ignored): always in
\* 1..28, 1 for a start today or in the future, 28 when d >= 27, and exactly 1
\* without raising for empty, malformed or unparseable input.
C2_CurrentDayClamped ==
    CurrentDayReturned =>
        /\ call.ret.raised = ""
        /\ call.ret.value \in 1..28
        /\ call.arg.kind = "iso" =>
              LET d == DaysSince(call.arg)
              IN  /\ call.ret.value =
                        (IF d + 1 < 1 THEN 1 ELSE IF d + 1 > 28 THEN 28 ELSE d + 1)
                  /\ (d <= 0 => call.ret.value = 1)
                  /\ (d >= 27 => call.ret.value = 28)
        /\ call.arg.kind # "iso" => call.ret.value = 1

\* enrolled yesterday evening, asked this morning: day 2
C2_Witness ==
    /\ CurrentDayReturned
    /\ call.arg.kind = "iso"
    /\ call.arg.tod = 1
    /\ now.tod = 0
    /\ DaysSince(call.arg) = 1
    /\ call.ret = Ok(2)

----------------------------------------------------------------------------
(* The catalog: challenge_problems.json as loaded by _load_challenge_data  *)

\* the table calculate_points falls back to when the catalog has none
DefaultPointValues ==
    [k \in {"easy", "medium", "hard", "streak_7", "streak_14", "streak_28"} |->
        CASE k = "easy"      -> 10
          [] k = "medium"    -> 20
          [] k = "hard"      -> 40
          [] k = "streak_7"  -> 50
          [] k = "streak_14" -> 100
          [] k = "streak_28" -> 250]

Problem(id, difficulty) == [id |-> id, difficulty |-> difficulty]

\* a catalog of the shape of the bundled file: ordered days, unique by day,
\* each with an ordered list of problems; ids unique across days
Days ==
    << [day |-> 1, theme |-> "Arrays & Hash Tables",
        problems |-> <<Problem("two-sum", "Easy"), Problem("group-anagrams", "Medium")>>],
       [day |-> 2, theme |-> "Two Pointers",
        problems |-> <<Problem("trapping-rain-water", "Hard")>>] >>

\* a catalog file that carries its own point_values table
Catalog == [days |-> Days, point_values |-> DefaultPointValues]

\* a catalog file without a point_values table
CatalogNoTable == [days |-> Days]

Catalogs == {Catalog, CatalogNoTable, EmptyCatalog}

----------------------------------------------------------------------------
(* Catalog accessors *)

Found(p) == <<p>>      \* Optional[Dict] holding p
NotFound == <<>>       \* None

\* a scan that keeps the last matching element instead of returning the first
LastAt(list, hits) ==
    IF hits = {} THEN NotFound
    ELSE Found(list[CHOOSE i \in hits : \A j \in hits : i >= j])

\* the element of list at the first of the matching positions, or None
FirstAt(list, hits) ==
    IF hits = {} THEN NotFound
    ELSE Found(list[CHOOSE i \in hits : \A j \in hits : i <= j])

get_challenge_days == Get(challenge_data, "days", <<>>)

get_day_problems(day) ==
    LET days == get_challenge_days
        hit  == FirstAt(days, {i \in 1..Len(days) : days[i]["day"] = day})
    IN  IF hit = NotFound THEN <<>> ELSE Get(hit[1], "problems", <<>>)

get_problem(day, problem_id) ==
    LET problems == get_day_problems(day)
    IN  FirstAt(problems, {i \in 1..Len(problems) : problems[i]["id"] = problem_id})

\* all problems of the catalog, in day order
RECURSIVE ProblemsFrom(_, _)
ProblemsFrom(days, i) ==
    IF i > Len(days) THEN <<>>
    ELSE Get(days[i], "problems", <<>>) \o ProblemsFrom(days, i + 1)

get_problem_by_id(problem_id) ==
    LET problems == ProblemsFrom(get_challenge_days, 1)
    IN  FirstAt(problems,
                {i \in 1..Len(problems) : "id" \in DOMAIN problems[i]
                                            /\ problems[i]["id"] = problem_id})

----------------------------------------------------------------------------
(* Day keys: f'day_{day}' and int(day_key.split('_')[1]) *)

Digit == <<"0", "1", "2", "3", "4", "5", "6", "7", "8", "9">>

DigitValue(c) == (CHOOSE i \in 1..10 : Digit[i] = c) - 1

IsDigit(c) == \E i \in 1..10 : Digit[i] = c

\* str(n) for n >= 0
RECURSIVE StrNat(_)
StrNat(n) == IF n < 10 THEN <<Digit[n + 1]>> ELSE StrNat(n \div 10) \o <<Digit[(n % 10) + 1]>>

\* str(n)
Str(n) == IF n < 0 THEN <<"-">> \o StrNat(-n) ELSE StrNat(n)

\* f'day_{day}'
DayKey(day) == <<"d", "a", "y", "_">> \o Str(day)

\* s.split('_'): the list of the parts of s between underscores
RECURSIVE SplitFrom(_, _, _)
SplitFrom(s, i, part) ==
    IF i > Len(s) THEN <<part>>
    ELSE IF s[i] = "_" THEN <<part>> \o SplitFrom(s, i + 1, <<>>)
    ELSE SplitFrom(s, i + 1, Append(part, s[i]))

Split(s) == SplitFrom(s, 1, <<>>)

\* s.strip()
RECURSIVE Strip(_)
Strip(s) ==
    IF s = <<>> THEN s
    ELSE IF Head(s) = " " THEN Strip(Tail(s))
    ELSE IF s[Len(s)] = " " THEN Strip(SubSeq(s, 1, Len(s) - 1))
    ELSE s

RECURSIVE DigitsValue(_, _)
DigitsValue(s, acc) ==
    IF s = <<>> THEN acc ELSE DigitsValue(Tail(s), acc * 10 + DigitValue(Head(s)))

\* int(s): surrounding blanks, an optional sign, then decimal digits
ParseInt(s) ==
    LET t      == Strip(s)
        signed == t # <<>> /\ Head(t) \in {"-", "+"}
        digits == IF signed THEN Tail(t) ELSE t
    IN  IF digits = <<>> \/ \E i \in 1..Len(digits) : ~IsDigit(digits[i])
        THEN Raise("ValueError")
        ELSE Ok(IF signed /\ Head(t) = "-" THEN -DigitsValue(digits, 0)
                ELSE DigitsValue(digits, 0))

\* a reading that takes only keys of the exact form day_<digits>
KeyDayOfDayPrefixOnly(day_key) ==
    LET parts == Split(day_key)
    IN  IF Len(parts) # 2 \/ parts[1] # <<"d", "a", "y">> THEN Raise("ValueError")
        ELSE ParseInt(parts[2])

\* int(day_key.split('_')[1])
KeyDay(day_key) ==
    LET parts == Split(day_key)
    IN  IF Len(parts) < 2 THEN Raise("IndexError") ELSE ParseInt(parts[2])

----------------------------------------------------------------------------
(* ChallengeService.calculate_points *)

\* str.lower() on the difficulty names
Lower(x) ==
    CASE x = "Easy"   -> "easy"
      [] x = "Medium" -> "medium"
      [] x = "Hard"   -> "hard"
      [] OTHER        -> x

\* a lookup of the id in the whole catalog instead of in the key's day
ProblemLookupAnyDay(day_num, pid) == get_problem_by_id(pid)

\* problem = self.get_problem(day_num, pid)
ProblemLookup(day_num, pid) == get_problem(day_num, pid)

\* the points of one recorded id under day day_num
PointsOfSolve(day_num, pid, point_values) ==
    LET problem == ProblemLookup(day_num, pid)
    IN  IF problem # NotFound
        THEN Get(point_values, Lower(Get(problem[1], "difficulty", "Easy")), 10)
        ELSE 0

\* for pid in problem_ids: ...
RECURSIVE PointsOfList(_, _, _, _)
PointsOfList(day_num, problem_ids, i, point_values) ==
    IF i > Len(problem_ids) THEN 0
    ELSE PointsOfSolve(day_num, problem_ids[i], point_values)
           + PointsOfList(day_num, problem_ids, i + 1, point_values)

\* one round of: for day_key, problem_ids in problems_solved.items()
PointsOfKey(day_key, problem_ids, point_values) ==
    LET day_num == KeyDay(day_key)
    IN  IF day_num.raised \in {"IndexError", "ValueError"} THEN 0
        ELSE PointsOfList(day_num.value, problem_ids, 1, point_values)

RECURSIVE PointsOfKeys(_, _, _)
PointsOfKeys(problems_solved, keys, point_values) ==
    IF keys = {} THEN 0
    ELSE LET k == CHOOSE x \in keys : TRUE
         IN  PointsOfKey(k, problems_solved[k], point_values)
               + PointsOfKeys(problems_solved, keys \ {k}, point_values)

\* tiers that add up: if / if / if instead of if / elif / elif
StreakBonusCumulative(best_streak, point_values) ==
    (IF best_streak >= 28 THEN Get(point_values, "streak_28", 250) ELSE 0)
      + (IF best_streak >= 14 THEN Get(point_values, "streak_14", 100) ELSE 0)
      + (IF best_streak >= 7 THEN Get(point_values, "streak_7", 50) ELSE 0)

StreakBonus(best_streak, point_values) ==
    IF best_streak >= 28 THEN Get(point_values, "streak_28", 250)
    ELSE IF best_streak >= 14 THEN Get(point_values, "streak_14", 100)
    ELSE IF best_streak >= 7 THEN Get(point_values, "streak_7", 50)
    ELSE 0

\* a count of every submission that was not rejected
NotRejectedCount(skool_submissions) ==
    Cardinality({i \in 1..Len(skool_submissions) :
        ~("status" \in DOMAIN skool_submissions[i]
            /\ skool_submissions[i]["status"] = "rejected")})

\* sum(1 for s in skool_submissions if s.get('status') == 'approved')
ApprovedCount(skool_submissions) ==
    Cardinality({i \in 1..Len(skool_submissions) :
        "status" \in DOMAIN skool_submissions[i]
            /\ skool_submissions[i]["status"] = "approved"})

\* points that take the streak bonus of the running streak, not of the best one
calculate_points_of_current_streak(data) ==
    LET point_values    == Get(challenge_data, "point_values", DefaultPointValues)
        problems_solved == Get(data, "problems_solved", <<>>)
    IN  PointsOfKeys(problems_solved, DOMAIN problems_solved, point_values)
          + StreakBonus(Get(data, "current_streak", 0), point_values)
          + ApprovedCount(Get(data, "skool_submissions", <<>>))
              * Get(point_values, "skool_post_approved", 30)

calculate_points(data) ==
    LET point_values    == Get(challenge_data, "point_values", DefaultPointValues)
        problems_solved == Get(data, "problems_solved", <<>>)
    IN  PointsOfKeys(problems_solved, DOMAIN problems_solved, point_values)
          + StreakBonus(Get(data, "best_streak", 0), point_values)
          + ApprovedCount(Get(data, "skool_submissions", <<>>))
              * Get(point_values, "skool_post_approved", 30)

----------------------------------------------------------------------------
(* Progress records drawn as inputs *)

MaxSolves == 2       \* recorded solves in a drawn problems_solved
MaxSubs == 3         \* entries in a drawn skool_submissions
MaxBonus == 2        \* entries in a drawn bonus_problems

\* an optional field: <<>> for a key that is absent, <<v>> for key |-> v
Field(name, option) == IF option = <<>> THEN <<>> ELSE name :> option[1]

Optional(S) == {<<>>} \cup {<<v>> : v \in S}

Without(data, key) == [k \in DOMAIN data \ {key} |-> data[k]]

ProblemIds == {"two-sum", "group-anagrams", "trapping-rain-water", "not-a-real-id"}

\* day_1, day_2, day_3 (no such catalog day) and keys not of the form day_<integer>
SolveKeys ==
    {DayKey(1), DayKey(2), DayKey(3), <<"x", "_", "1">>, <<"d", "a", "y", "_", "x">>, <<"d", "a", "y">>}

\* the ids recorded under key, in the order of the solves
RECURSIVE IdsUnder(_, _)
IdsUnder(key, solves) ==
    IF solves = <<>> THEN <<>>
    ELSE IF Head(solves)[1] = key THEN <<Head(solves)[2]>> \o IdsUnder(key, Tail(solves))
    ELSE IdsUnder(key, Tail(solves))

\* the problems_solved dict that a list of (key, id) solves builds up
ProblemsSolvedOf(solves) ==
    [k \in {solves[i][1] : i \in 1..Len(solves)} |-> IdsUnder(k, solves)]

ProblemsSolvedDicts ==
    {ProblemsSolvedOf(s) : s \in SeqsUpTo(SolveKeys \X ProblemIds, MaxSolves)}

FewProblemsSolved ==
    {ProblemsSolvedOf(<<>>),
     ProblemsSolvedOf(<<<<DayKey(1), "two-sum">>>>),
     ProblemsSolvedOf(<<<<DayKey(1), "two-sum">>, <<DayKey(1), "group-anagrams">>,
                        <<DayKey(2), "trapping-rain-water">>>>)}

BestStreaks == {0, 6, 7, 10, 13, 14, 27, 28, 29}

Submission(status) == [day |-> 1, url |-> "skool.com/post", status |-> status]
SubmissionNoStatus == [day |-> 1, url |-> "skool.com/post"]

Submissions == {Submission(x) : x \in {"approved", "pending", "rejected"}} \cup {SubmissionNoStatus}

BonusProblem(i) == [url |-> i, name |-> "Bonus"]

BonusLists == {[i \in 1..n |-> BonusProblem(i)] : n \in 0..MaxBonus}

PointsRecord(ps, bs, sk, bp) ==
    Field("problems_solved", ps) @@ Field("best_streak", bs)
      @@ Field("skool_submissions", sk) @@ Field("bonus_problems", bp)

PointsInputs ==
    {PointsRecord(ps, bs, sk, bp) :
        ps \in Optional(ProblemsSolvedDicts), bs \in {<<>>, <<7>>},
        sk \in {<<>>, <<<<Submission("approved")>>>>}, bp \in {<<>>}}
      \cup
    {PointsRecord(ps, bs, sk, bp) :
        ps \in Optional(FewProblemsSolved), bs \in Optional(BestStreaks),
        sk \in Optional(SeqsUpTo(Submissions, MaxSubs)), bp \in Optional(BonusLists)}

----------------------------------------------------------------------------
(* Specification of calculate_points over drawn inputs *)

InitPoints ==
    /\ challenge_data \in Catalogs
    /\ now = Idle
    /\ store = NewUser
    /\ call \in {[fn |-> "calculate_points", arg |-> a, pc |-> "called", ret |-> 0] :
                    a \in PointsInputs}

ReturnCalculatePoints ==
    /\ call.fn = "calculate_points"
    /\ call.pc = "called"
    /\ call' = [call EXCEPT !.pc = "returned", !.ret = calculate_points(call.arg)]
    /\ UNCHANGED <<challenge_data, now, store>>

NextPoints == ReturnCalculatePoints

SpecPoints == InitPoints /\ [][NextPoints]_vars

PointsReturned == call.fn = "calculate_points" /\ call.pc = "returned"

\* the one tier a best streak reaches
Tier(best_streak) ==
    CASE best_streak >= 28 -> 250
      [] best_streak >= 14 /\ best_streak < 28 -> 100
      [] best_streak >= 7 /\ best_streak < 14 -> 50
      [] OTHER -> 0

NothingSolved(data) == \A k \in DOMAIN Get(data, "problems_solved", <<>>) : FALSE

\* C3: calculate_points adds exactly one streak bonus, chosen by best_streak
\* alone and never cumulative (250 from 28, else 100 from 14, else 50 from 7,
\* else 0): the result is the points of the same record without best_streak
\* plus that one tier; best_streak 28 alone scores 250, best_streak 10 scores 50.
C3_SingleStreakTier ==
    PointsReturned =>
        LET best == Get(call.arg, "best_streak", 0)
            alone == NothingSolved(call.arg)
                       /\ Get(call.arg, "skool_submissions", <<>>) = <<>>
        IN  /\ call.ret = calculate_points(Without(call.arg, "best_streak")) + Tier(best)
            /\ (alone /\ best = 28 => call.ret = 250)
            /\ (alone /\ best = 10 => call.ret = 50)

\* best_streak 28 next to a solved Easy problem: 10 + 250, not 10 + 400
C3_Witness ==
    /\ PointsReturned
    /\ challenge_data = Catalog
    /\ Get(call.arg, "best_streak", 0) = 28
    /\ Get(call.arg, "problems_solved", <<>>) = ProblemsSolvedOf(<<<<DayKey(1), "two-sum">>>>)
    /\ Get(call.arg, "skool_submissions", <<>>) = <<>>
    /\ call.ret = 260

\* the per-difficulty values of the default table
DifficultyValue(difficulty) ==
    CASE difficulty = "Easy"   -> 10
      [] difficulty = "Medium" -> 20
      [] difficulty = "Hard"   -> 40

RECURSIVE SumOver(_, _)
SumOver(f, S) ==
    IF S = {} THEN 0
    ELSE LET x == CHOOSE y \in S : TRUE IN f[x] + SumOver(f, S \ {x})

\* the recorded solves of a problems_solved dict: (key, position) pairs
SolvesOf(ps) == UNION {{<<k, i>> : i \in 1..Len(ps[k])} : k \in DOMAIN ps}

CatalogDays == {challenge_data.days[i] : i \in 1..Len(challenge_data.days)}

CatalogProblems == UNION {Range(d.problems) : d \in CatalogDays}

\* the problems of the catalog day that day_key names, if it names one
ProblemsOfKeysDay(day_key) ==
    UNION {Range(d.problems) : d \in {x \in CatalogDays : DayKey(x.day) = day_key}}

\* the value of the problem with this id among candidates, 0 if there is none
ValueAmong(id, candidates) ==
    LET hits == {p \in candidates : p.id = id}
    IN  IF hits = {} THEN 0 ELSE DifficultyValue((CHOOSE p \in hits : TRUE).difficulty)

AllKeysAreDayKeys(ps) == \A k \in DOMAIN ps : \E n \in 0..30 : k = DayKey(n)

C5_BonusProblemsScoreFive ==
    PointsReturned =>
        call.ret = calculate_points(Without(call.arg, "bonus_problems"))
                     + 5 * Len(Get(call.arg, "bonus_problems", <<>>))

\* the entries with a status other than 'approved', and those with none
OtherCount(skool_submissions) ==
    Cardinality({i \in 1..Len(skool_submissions) :
        \/ "status" \notin DOMAIN skool_submissions[i]
        \/ skool_submissions[i]["status"] \in {"pending", "rejected"}})

\* C6: calculate_points adds 30 for every skool_submissions entry whose status
\* is exactly 'approved' and 0 for pending, rejected and status-less entries.
C6_ApprovedPostsScoreThirty ==
    PointsReturned =>
        LET subs == Get(call.arg, "skool_submissions", <<>>)
        IN  call.ret = calculate_points(Without(call.arg, "skool_submissions"))
                         + 30 * (Len(subs) - OtherCount(subs))

\* approved, pending and status-less entries together: 30 points
C6_Witness ==
    /\ PointsReturned
    /\ DOMAIN call.arg = {"skool_submissions"}
    /\ call.arg["skool_submissions"] =
          <<Submission("approved"), Submission("pending"), SubmissionNoStatus>>
    /\ call.ret = 30

----------------------------------------------------------------------------
(* ChallengeService.check_achievements *)

\* first_problem handed out without a look at the achievements already held
FirstProblemUnlockAlways(data, current_achievements) ==
    IF Get(data, "total_problems_solved", 0) >= 1 THEN <<"first_problem">> ELSE <<>>

FirstProblemUnlock(data, current_achievements) ==
    IF Get(data, "total_problems_solved", 0) >= 1
       /\ "first_problem" \notin current_achievements
    THEN <<"first_problem">> ELSE <<>>

\* streak checks chained with elif from the top: only the highest tier unlocks
StreakUnlocksHighestOnly(best_streak, current_achievements) ==
    IF best_streak >= 28 /\ "streak_28" \notin current_achievements THEN <<"streak_28">>
    ELSE IF best_streak >= 14 /\ "streak_14" \notin current_achievements THEN <<"streak_14">>
    ELSE IF best_streak >= 7 /\ "streak_7" \notin current_achievements THEN <<"streak_7">>
    ELSE <<>>

StreakUnlocks(best_streak, current_achievements) ==
    (IF best_streak >= 7 /\ "streak_7" \notin current_achievements
        THEN <<"streak_7">> ELSE <<>>)
      \o (IF best_streak >= 14 /\ "streak_14" \notin current_achievements
            THEN <<"streak_14">> ELSE <<>>)
      \o (IF best_streak >= 28 /\ "streak_28" \notin current_achievements
            THEN <<"streak_28">> ELSE <<>>)

\* the id looked up in the day its key names instead of in the whole catalog
ResolvesHardInKeyDay(day_key, pid) ==
    LET day_num == KeyDay(day_key)
        problem == IF day_num.raised = "" THEN get_problem(day_num.value, pid) ELSE NotFound
    IN  problem # NotFound
          /\ "difficulty" \in DOMAIN problem[1] /\ problem[1]["difficulty"] = "Hard"

\* problem = self.get_problem_by_id(pid); problem and problem.get('difficulty') == 'Hard'
\* (the key the id is recorded under plays no part)
ResolvesHard(day_key, pid) ==
    LET problem == get_problem_by_id(pid)
    IN  problem # NotFound
          /\ "difficulty" \in DOMAIN problem[1] /\ problem[1]["difficulty"] = "Hard"

\* the two nested loops append hard_problem at the first Hard id and break
HardUnlock(problems_solved, current_achievements) ==
    IF "hard_problem" \notin current_achievements
       /\ \E k \in DOMAIN problems_solved :
             \E i \in 1..Len(problems_solved[k]) : ResolvesHard(k, problems_solved[k][i])
    THEN <<"hard_problem">> ELSE <<>>

CommunityUnlock(skool_submissions, current_achievements) ==
    IF ApprovedCount(skool_submissions) >= 3 /\ "community_star" \notin current_achievements
    THEN <<"community_star">> ELSE <<>>

check_achievements(data) ==
    LET current_achievements == Range(Get(data, "achievements", <<>>))
    IN  FirstProblemUnlock(data, current_achievements)
          \o StreakUnlocks(Get(data, "best_streak", 0), current_achievements)
          \o HardUnlock(Get(data, "problems_solved", <<>>), current_achievements)
          \o CommunityUnlock(Get(data, "skool_submissions", <<>>), current_achievements)

----------------------------------------------------------------------------
(* Specification of check_achievements over drawn inputs *)

AllAchievements ==
    <<"first_problem", "streak_7", "streak_14", "streak_28", "hard_problem", "community_star">>

\* the ids of AllAchievements from position i on that are in S, as a list
RECURSIVE HeldFrom(_, _)
HeldFrom(S, i) ==
    IF i > Len(AllAchievements) THEN <<>>
    ELSE (IF AllAchievements[i] \in S THEN <<AllAchievements[i]>> ELSE <<>>)
           \o HeldFrom(S, i + 1)

AchievementLists == {HeldFrom(S, 1) : S \in SUBSET Range(AllAchievements)}

Approved(n) == [i \in 1..n |-> Submission("approved")]

AchievementRecord(ach, total, bs, ps, sk) ==
    Field("achievements", ach) @@ Field("total_problems_solved", total)
      @@ Field("best_streak", bs) @@ Field("problems_solved", ps)
      @@ Field("skool_submissions", sk)

AchievementInputs ==
    {AchievementRecord(ach, total, bs, ps, sk) :
        ach \in Optional(AchievementLists), total \in {<<>>, <<0>>, <<1>>},
        bs \in Optional(BestStreaks), ps \in Optional(FewProblemsSolved),
        sk \in {<<>>, <<Approved(2) \o <<Submission("pending")>>>>,
                <<Approved(3)>>, <<Approved(MaxSubs + 1)>>}}
      \cup
    {AchievementRecord(ach, total, bs, ps, sk) :
        ach \in {<<>>, << <<>> >>, << <<"hard_problem">> >>}, total \in {<<100>>},
        bs \in {<<0>>}, ps \in Optional(ProblemsSolvedDicts), sk \in {<<>>}}
      \cup
    {AchievementRecord(ach, total, bs, ps, sk) :
        ach \in {<<>>, << <<>> >>, << <<"community_star">> >>}, total \in {<<0>>},
        bs \in {<<7>>}, ps \in Optional(FewProblemsSolved),
        sk \in Optional(SeqsUpTo(Submissions, MaxSubs))}

InitAchievements ==
    /\ challenge_data \in {Catalog, EmptyCatalog}
    /\ now = Idle
    /\ store = NewUser
    /\ call \in {[fn |-> "check_achievements", arg |-> a, pc |-> "called", ret |-> <<>>] :
                    a \in AchievementInputs}

ReturnCheckAchievements ==
    /\ call.fn = "check_achievements"
    /\ call.pc = "called"
    /\ call' = [call EXCEPT !.pc = "returned", !.ret = check_achievements(call.arg)]
    /\ UNCHANGED <<challenge_data, now, store>>

NextAchievements == ReturnCheckAchievements

SpecAchievements == InitAchievements /\ [][NextAchievements]_vars

AchievementsReturned == call.fn = "check_achievements" /\ call.pc = "returned"

Returned(id) == \E i \in 1..Len(call.ret) : call.ret[i] = id

\* C7: for a record that holds no achievements, check_achievements returns
\* first_problem iff total_problems_solved >= 1, streak_7 / streak_14 / streak_28
\* iff best_streak >= 7 / 14 / 28 (independent checks that stack) and
\* community_star iff at least 3 skool_submissions are approved.
C7_UnlockThresholds ==
    AchievementsReturned /\ Get(call.arg, "achievements", <<>>) = <<>> =>
        LET total == Get(call.arg, "total_problems_solved", 0)
            best  == Get(call.arg, "best_streak", 0)
            subs  == Get(call.arg, "skool_submissions", <<>>)
        IN  /\ Returned("first_problem") <=> total >= 1
            /\ Returned("streak_7") <=> best >= 7
            /\ Returned("streak_14") <=> best >= 14
            /\ Returned("streak_28") <=> best >= 28
            /\ Returned("community_star") <=> Len(subs) - OtherCount(subs) >= 3
            /\ best = 28 => Returned("streak_7") /\ Returned("streak_14")
                              /\ Returned("streak_28")
            /\ best = 7 => Returned("streak_7") /\ ~Returned("streak_14")

\* best_streak 28 with nothing held: the three streak achievements together
C7_Witness ==
    /\ AchievementsReturned
    /\ Get(call.arg, "achievements", <<"x">>) = <<>>
    /\ Get(call.arg, "best_streak", 0) = 28
    /\ Get(call.arg, "total_problems_solved", 0) = 0
    /\ call.ret = <<"streak_7", "streak_14", "streak_28">>

\* C8: check_achievements returns only the delta: no returned id is already in
\* the record's achievements, every returned id appears once, and a record
\* holding all six achievements gets an empty result.
C8_OnlyNewAchievements ==
    AchievementsReturned =>
        LET held == Get(call.arg, "achievements", <<>>)
        IN  /\ \A i \in 1..Len(call.ret) : ~InList(call.ret[i], held)
            /\ \A i, j \in 1..Len(call.ret) : call.ret[i] = call.ret[j] => i = j
            /\ (\A i \in 1..Len(AllAchievements) : InList(AllAchievements[i], held))
                  => call.ret = <<>>

\* first_problem and streak_7 held, best_streak 14, a problem solved: only
\* streak_14 is returned
C8_Witness ==
    /\ AchievementsReturned
    /\ Get(call.arg, "achievements", <<>>) = <<"first_problem", "streak_7">>
    /\ Get(call.arg, "total_problems_solved", 0) = 1
    /\ Get(call.arg, "best_streak", 0) = 14
    /\ call.ret = <<"streak_14">>

\* some recorded id is the id of a catalog problem of difficulty Hard
SomeSolveIsHard(ps) ==
    \E s \in SolvesOf(ps) :
        \E p \in CatalogProblems : p.id = ps[s[1]][s[2]] /\ p.difficulty = "Hard"

\* C9: check_achievements returns hard_problem iff it is not already held and
\* some id in problems_solved, under any day key, resolves by catalog-wide
\* lookup to a Hard problem; unknown, Easy and Medium ids never unlock it.
C9_HardProblemByCatalogLookup ==
    AchievementsReturned =>
        (Returned("hard_problem") <=>
            /\ ~InList("hard_problem", Get(call.arg, "achievements", <<>>))
            /\ SomeSolveIsHard(Get(call.arg, "problems_solved", <<>>)))

\* the Hard problem of day 2 recorded under a key that names no day
C9_Witness ==
    /\ AchievementsReturned
    /\ challenge_data = Catalog
    /\ Get(call.arg, "problems_solved", <<>>) =
          ProblemsSolvedOf(<<<<<<"d", "a", "y">>, "trapping-rain-water">>,
                             <<DayKey(1), "two-sum">>>>)
    /\ Returned("hard_problem")

----------------------------------------------------------------------------
(* ChallengeService.is_day_complete *)

\* any() where the code has all()
IsCompleteAny(day_problems, solved_ids) ==
    \E i \in 1..Len(day_problems) : InList(day_problems[i]["id"], solved_ids)

\* all(pid in solved_ids for pid in day_problem_ids)
IsComplete(day_problems, solved_ids) ==
    \A i \in 1..Len(day_problems) : InList(day_problems[i]["id"], solved_ids)

is_day_complete(day, problems_solved) ==
    LET day_key      == DayKey(day)
        solved_ids   == Get(problems_solved, day_key, <<>>)
        day_problems == get_day_problems(day)
    IN  IF day_problems = <<>> THEN FALSE
        ELSE IsComplete(day_problems, solved_ids)

----------------------------------------------------------------------------
(* Specification of is_day_complete over drawn inputs *)

DayCompleteInputs ==
    {[day |-> d, problems_solved |-> ps] :
        d \in (-1..MaxDay) \cup {99},
        ps \in ProblemsSolvedDicts
                 \cup FewProblemsSolved
                 \cup {DayKey(1) :> <<>>,
                       DayKey(1) :> <<"group-anagrams", "not-a-real-id", "two-sum">>}}

InitDayComplete ==
    /\ challenge_data \in {Catalog, EmptyCatalog}
    /\ now = Idle
    /\ store = NewUser
    /\ call \in {[fn |-> "is_day_complete", arg |-> a, pc |-> "called", ret |-> FALSE] :
                    a \in DayCompleteInputs}

ReturnIsDayComplete ==
    /\ call.fn = "is_day_complete"
    /\ call.pc = "called"
    /\ call' = [call EXCEPT !.pc = "returned",
                            !.ret = is_day_complete(call.arg.day, call.arg.problems_solved)]
    /\ UNCHANGED <<challenge_data, now, store>>

NextDayComplete == ReturnIsDayComplete

SpecDayComplete == InitDayComplete /\ [][NextDayComplete]_vars

DayCompleteReturned == call.fn = "is_day_complete" /\ call.pc = "returned"

\* the ids of the problems the catalog defines for day
CatalogIdsOf(day) == {p.id : p \in UNION {Range(d.problems) : d \in {x \in CatalogDays : x.day = day}}}

\* C10: is_day_complete is false for a day without catalog-defined problems,
\* whatever problems_solved holds; otherwise it is true iff every catalog
\* problem id of the day is in problems_solved['day_<day>'], extra ids allowed.
C10_DayCompleteIffAllSolved ==
    DayCompleteReturned =>
        LET ids    == CatalogIdsOf(call.arg.day)
            solved == Range(Get(call.arg.problems_solved, DayKey(call.arg.day), <<>>))
        IN  /\ ids = {} => call.ret = FALSE
            /\ ids # {} => (call.ret <=> ids \subseteq solved)

\* both problems of day 1 and an unknown id recorded under day_1: complete
C10_Witness ==
    /\ DayCompleteReturned
    /\ challenge_data = Catalog
    /\ call.arg.day = 1
    /\ call.arg.problems_solved = DayKey(1) :> <<"group-anagrams", "not-a-real-id", "two-sum">>
    /\ call.ret = TRUE

----------------------------------------------------------------------------
(* The challenge API handlers (app/routes/api.py)                           *)
(*                                                                          *)
(* A handler reads the signed-in user's metadata, computes the new record   *)
(* and hands it to update_user_metadata.  store is the record as the last   *)
(* successful update left it, which is the record the next request of the   *)
(* user starts from.  A handler runs from its first line to its response    *)
(* in one step; call keeps its request and its response.                    *)

MaxNow == 1          \* the calendar runs from day 0 to day MaxNow
MaxRecorded == 2     \* the most solves a record takes before requests stop adding

\* d[key] = value
Put(d, key, value) ==
    [k \in DOMAIN d \cup {key} |-> IF k = key THEN value ELSE d[k]]

\* datetime.now().isoformat()
IsoFormat(n) == [kind |-> "iso", ord |-> n.ord, tod |-> n.tod, suffix |-> ""]

\* list(set(items)): the distinct items in an order the set's hashing picks
ListsOfSet(items) ==
    {l \in [1..Cardinality(Range(items)) -> Range(items)] : Range(l) = Range(items)}

\* len(problems_solved): the number of day keys, not of solves
NumberOfKeys(problems_solved) == Cardinality(DOMAIN problems_solved)

\* sum(len(p) for p in problems_solved.values())
SumOfLens(problems_solved) ==
    SumOver([k \in DOMAIN problems_solved |-> Len(problems_solved[k])], DOMAIN problems_solved)

\* user.get('public_metadata', {}).get('challenge', {})
StoredChallenge == Get(store.public_metadata, "challenge", <<>>)

\* a JSON response with its status code, and whether the handler got as far
\* as calling update_user_metadata
Response(code, body, wrote) == [code |-> code, body |-> body, wrote |-> wrote]

\* an enrollment that carries the achievements of the stored record over
FreshChallengeKeepingAchievements ==
    [enrolled |-> TRUE,
     start_date |-> IsoFormat(now),
     days_completed |-> <<>>,
     problems_solved |-> <<>>,
     total_problems_solved |-> 0,
     current_streak |-> 0,
     best_streak |-> 0,
     points |-> 0,
     achievements |-> Get(StoredChallenge, "achievements", <<>>),
     last_activity_date |-> IsoFormat(now)]

\* the challenge_data dict that enroll_challenge builds
FreshChallenge ==
    [enrolled |-> TRUE,
     start_date |-> IsoFormat(now),
     days_completed |-> <<>>,
     problems_solved |-> <<>>,
     total_problems_solved |-> 0,
     current_streak |-> 0,
     best_streak |-> 0,
     points |-> 0,
     achievements |-> <<>>,
     last_activity_date |-> IsoFormat(now)]

\* POST /challenge/enroll; clerk_ok tells whether update_user_metadata succeeds
enroll_challenge ==
    \E clerk_ok \in BOOLEAN :
        LET current_meta == Put(store.public_metadata, "challenge", FreshChallenge)
        IN  /\ store' = IF clerk_ok THEN UserWith(current_meta) ELSE store
            /\ call' = [fn |-> "enroll_challenge", arg |-> <<>>, pc |-> "returned",
                        ret |-> IF clerk_ok
                                THEN Response(200, [status |-> "success",
                                                    challenge |-> FreshChallenge], TRUE)
                                ELSE Response(500, [error |-> "Failed to enroll"], TRUE)]
            /\ UNCHANGED <<challenge_data, now>>

\* the solves that requests report: both problems of day 1, the hard problem
\* of day 2, a day 1 problem under day 2, and an id the catalog does not
\* have under a day the catalog does not have
SolveRequests ==
    {<<1, "two-sum">>, <<1, "group-anagrams">>, <<2, "trapping-rain-water">>,
     <<2, "two-sum">>, <<3, "not-a-real-id">>}

\* JSON bodies of POST /challenge/complete-problem: the solves, and bodies
\* with a key missing, day 0 or an empty problem_id
CompleteRequests ==
    {("day" :> r[1]) @@ ("problem_id" :> r[2]) : r \in SolveRequests}
      \cup {<<>>, "day" :> 1, "problem_id" :> "two-sum",
            ("day" :> 0) @@ ("problem_id" :> "two-sum"),
            ("day" :> 1) @@ ("problem_id" :> "")}

\* a test for the key alone, which lets day 0 and an empty id through
NotGivenKeyOnly(data, key, empty) == key \notin DOMAIN data

\* not data.get(key), for a key whose falsy value is empty
NotGiven(data, key, empty) == key \notin DOMAIN data \/ data[key] = empty

\* a best streak that is left as it was
BestStreakUnchanged(best_streak, current_streak) == best_streak

\* max(challenge.get('best_streak', 0), challenge['current_streak'])
BestStreakAfter(best_streak, current_streak) == Max(best_streak, current_streak)

\* a lookup under the key str(day) where the solves are kept under day_<day>
AlreadySolvedUnderDayNumber(challenge, day, problem_id) ==
    InList(problem_id, Get(Get(challenge, "problems_solved", <<>>), Str(day), <<>>))

\* problem_id in problems_solved[day_key], where a key that is not there
\* yet stands for the empty list (lines 161-166)
AlreadySolved(challenge, day, problem_id) ==
    InList(problem_id, Get(Get(challenge, "problems_solved", <<>>), DayKey(day), <<>>))

\* a day marked complete at its first solve, without asking is_day_complete
MarkDayCompleteUnchecked(challenge, day, problems_solved) ==
    LET days_completed == Get(challenge, "days_completed", <<>>)
    IN  IF ~InList(day, days_completed)
        THEN Put(challenge, "days_completed", Append(days_completed, day))
        ELSE challenge

\* the check whether the day is complete now (lines 180-186)
MarkDayComplete(challenge, day, problems_solved) ==
    LET days_completed == Get(challenge, "days_completed", <<>>)
    IN  IF is_day_complete(day, problems_solved) /\ ~InList(day, days_completed)
        THEN Put(challenge, "days_completed", Append(days_completed, day))
        ELSE challenge

\* a list that keeps the reported id alone
SolvesReplaced(solved, problem_id) == <<problem_id>>

\* problems_solved[day_key].append(problem_id)
SolvesAfter(solved, problem_id) == Append(solved, problem_id)

\* points that are added to the points the record held
PointsAccumulated(before, after) == Get(before, "points", 0) + calculate_points(after)

\* challenge['points'] = service.calculate_points(challenge)
PointsRecalculated(before, after) == calculate_points(after)

\* the record after a solve of problem_id under day was added to challenge,
\* with achievements left as they were (lines 160-199)
AfterNewSolve(challenge, day, problem_id) ==
    LET day_key == DayKey(day)
        solved_before == Get(challenge, "problems_solved", <<>>)
        problems_solved ==
            Put(solved_before, day_key,
                SolvesAfter(Get(solved_before, day_key, <<>>), problem_id))
        today == DateOf(now)
        log_before == Get(challenge, "activity_log", <<>>)
        entry == Get(log_before, today, [count |-> 0, problems |-> <<>>])
        activity_log ==
            Put(log_before, today,
                [count |-> entry.count + 1, problems |-> Append(entry.problems, problem_id)])
        c1 == Put(Put(Put(challenge, "problems_solved", problems_solved),
                      "total_problems_solved", SumOfLens(problems_solved)),
                  "activity_log", activity_log)
        c2 == MarkDayComplete(c1, day, problems_solved)
        current_day == calculate_current_day(Get(c2, "start_date", [kind |-> "text", text |-> ""]), now)
        current_streak == calculate_streak(Get(c2, "days_completed", <<>>), current_day.value)
        c3 == Put(c2, "current_streak", current_streak)
        c4 == Put(c3, "best_streak", BestStreakAfter(Get(c3, "best_streak", 0), current_streak))
    IN  Put(c4, "points", PointsRecalculated(challenge, c4))

\* POST /challenge/complete-problem; the result of update_user_metadata is
\* not looked at, a failed update leaves the stored record as it was.  The
\* requests stop adding solves to a record that holds limit of them.
complete_problem_within(limit) ==
    \E data \in CompleteRequests, clerk_ok \in BOOLEAN :
        LET challenge == StoredChallenge
            requested == [fn |-> "complete_problem", arg |-> data, pc |-> "returned", ret |-> <<>>]
        IN  IF NotGiven(data, "day", 0) \/ NotGiven(data, "problem_id", "")
            THEN /\ call' = [requested EXCEPT !.ret =
                                Response(400, [error |-> "day and problem_id required"], FALSE)]
                 /\ UNCHANGED <<challenge_data, now, store>>
            ELSE IF ~Get(challenge, "enrolled", FALSE)
            THEN /\ call' = [requested EXCEPT !.ret =
                                Response(400, [error |-> "Not enrolled in challenge"], FALSE)]
                 /\ UNCHANGED <<challenge_data, now, store>>
            ELSE IF AlreadySolved(challenge, data.day, data.problem_id)
            THEN /\ call' = [requested EXCEPT !.ret =
                                Response(200, [status |-> "already_completed"], FALSE)]
                 /\ UNCHANGED <<challenge_data, now, store>>
            ELSE LET solved == AfterNewSolve(challenge, data.day, data.problem_id)
                     new_achievements == check_achievements(solved)
                     held == Get(solved, "achievements", <<>>)
                 IN  /\ Get(challenge, "total_problems_solved", 0) < limit
                     /\ \E achievements \in
                            (IF new_achievements # <<>>
                             THEN ListsOfSet(held \o new_achievements) ELSE {held}) :
                          LET updated ==
                                Put(IF new_achievements # <<>>
                                    THEN Put(solved, "achievements", achievements)
                                    ELSE solved,
                                    "last_activity_date", IsoFormat(now))
                          IN  /\ store' = IF clerk_ok
                                          THEN UserWith(Put(store.public_metadata,
                                                            "challenge", updated))
                                          ELSE store
                              /\ call' = [requested EXCEPT !.ret =
                                            Response(200, [status |-> "success",
                                                           challenge |-> updated,
                                                           new_achievements |-> new_achievements],
                                                     TRUE)]
                     /\ UNCHANGED <<challenge_data, now>>

complete_problem == complete_problem_within(MaxRecorded)

\* GET /challenge/progress
get_challenge_progress ==
    LET challenge == StoredChallenge
        current_day == calculate_current_day(Get(challenge, "start_date", [kind |-> "text", text |-> ""]), now)
    IN  /\ call' = [fn |-> "get_challenge_progress", arg |-> <<>>, pc |-> "returned",
                    ret |-> IF ~Get(challenge, "enrolled", FALSE)
                            THEN Response(200, [enrolled |-> FALSE], FALSE)
                            ELSE Response(200,
                                    [enrolled |-> TRUE,
                                     current_day |-> current_day.value,
                                     days_completed |-> Get(challenge, "days_completed", <<>>),
                                     problems_solved |-> Get(challenge, "problems_solved", <<>>),
                                     total_problems_solved |-> Get(challenge, "total_problems_solved", 0),
                                     current_streak |-> Get(challenge, "current_streak", 0),
                                     best_streak |-> Get(challenge, "best_streak", 0),
                                     points |-> Get(challenge, "points", 0),
                                     achievements |-> Get(challenge, "achievements", <<>>)],
                                    FALSE)]
        /\ UNCHANGED <<challenge_data, now, store>>

\* the calendar day advances: datetime.now() is one day later from here on
DayPasses ==
    /\ now.ord < MaxNow
    /\ now' = [now EXCEPT !.ord = @ + 1]
    /\ UNCHANGED <<challenge_data, call, store>>

NoCall == [fn |-> "", arg |-> <<>>, pc |-> "idle", ret |-> <<>>]

Init ==
    /\ challenge_data = Catalog
    /\ now = Idle
    /\ store = NewUser
    /\ call = NoCall

Next ==
    \/ enroll_challenge
    \/ complete_problem
    \/ get_challenge_progress
    \/ DayPasses

Spec == Init /\ [][Next]_vars

----------------------------------------------------------------------------
(* Properties of the stored record over sequences of requests *)

ChallengeOf(user) == Get(user.public_metadata, "challenge", <<>>)

AchievementsOf(user) == Range(Get(ChallengeOf(user), "achievements", <<>>))

BestStreakOf(user) == Get(ChallengeOf(user), "best_streak", 0)

CurrentStreakOf(user) == Get(ChallengeOf(user), "current_streak", 0)

\* C11: the achievement set of the stored record only grows: every step of a
\* sequence of challenge requests leaves a record whose achievements contain
\* all ids of the record before it.
C11_AchievementsOnlyGrow ==
    [][AchievementsOf(store) \subseteq AchievementsOf(store')]_vars

\* C12: best_streak is a high-water mark: no step lowers the stored
\* best_streak, and a complete_problem that records a new solve leaves
\* max(previous best_streak, newly computed current_streak).
C12_BestStreakHighWaterMark ==
    [][/\ BestStreakOf(store) <= BestStreakOf(store')
       /\ (call'.fn = "complete_problem" /\ store' # store) =>
              BestStreakOf(store') = Max(BestStreakOf(store), CurrentStreakOf(store'))]_vars

\* the streak that calculate_streak gives for the stored days_completed today
StreakToday ==
    calculate_streak(Get(StoredChallenge, "days_completed", <<>>),
                     calculate_current_day(Get(StoredChallenge, "start_date",
                                               [kind |-> "text", text |-> ""]), now).value)

\* C13: the stored current_streak never drifts from its inputs: in every
\* reachable state of an enrolled user it equals calculate_streak of the
\* stored days_completed and the current day of that moment, also after the
\* calendar day advanced with no new solve.
C13_StoredStreakIsCurrent ==
    Get(StoredChallenge, "enrolled", FALSE) =>
        Get(StoredChallenge, "current_streak", 0) = StreakToday

\* the ids recorded under day_<day> in the stored record
SolvedUnder(day) ==
    Range(Get(Get(StoredChallenge, "problems_solved", <<>>), DayKey(day), <<>>))

\* C14: in every record that complete_problem requests (integer days) leave
\* behind a fresh enrollment, days_completed holds a day number iff the
\* catalog defines at least one problem for the day and every one of them is
\* recorded under day_<day>, and holds no day number twice.
C14_DaysCompletedAreTheCompleteDays ==
    LET days_completed == Get(StoredChallenge, "days_completed", <<>>)
    IN  /\ \A day \in Range(days_completed) \cup (0..MaxDay) :
              InList(day, days_completed) <=>
                  (CatalogIdsOf(day) # {} /\ CatalogIdsOf(day) \subseteq SolvedUnder(day))
        /\ \A i, j \in 1..Len(days_completed) :
              days_completed[i] = days_completed[j] => i = j

\* day 1 completed by its two solves, day 2 with a solve that is not its problem
C14_Witness ==
    /\ call.fn = "complete_problem"
    /\ Get(StoredChallenge, "days_completed", <<>>) = <<1>>
    /\ SolvedUnder(1) = {"two-sum", "group-anagrams"}
    /\ StoredChallenge.total_problems_solved = 2

\* the request names a solve that the user's record already holds
Recorded(data, user) ==
    /\ DOMAIN data = {"day", "problem_id"}
    /\ InList(data.problem_id,
              Get(Get(ChallengeOf(user), "problems_solved", <<>>), DayKey(data.day), <<>>))

\* C15: solving the same problem twice is a no-op: a complete_problem for a
\* (day, problem_id) already under problems_solved['day_<day>'] answers
\* already_completed, leaves every field of the stored record as it was and
\* does not call update_user_metadata.
C15_RepeatedSolveChangesNothing ==
    [][(call' # call /\ call'.fn = "complete_problem" /\ Recorded(call'.arg, store)) =>
          /\ call'.ret.body = [status |-> "already_completed"]
          /\ call'.ret.wrote = FALSE
          /\ store' = store]_vars

\* two-sum of day 1 reported a second time
C15_Witness ==
    /\ call.fn = "complete_problem"
    /\ DOMAIN call.ret.body = {"status"}
    /\ call.ret.body.status = "already_completed"
    /\ Recorded(call.arg, store)
    /\ StoredChallenge.total_problems_solved = 1

----------------------------------------------------------------------------
(* Specification of calculate_points called on records that agree on         *)
(* problems_solved, best_streak, skool_submissions and bonus_problems        *)

\* what a record holds besides the four fields
OtherFields ==
    {<<>>,
     [enrolled |-> TRUE, current_streak |-> 0, points |-> 0, achievements |-> <<>>,
      days_completed |-> <<>>, total_problems_solved |-> 0],
     [current_streak |-> 7, points |-> 50],
     [current_streak |-> 28, points |-> 999, total_problems_solved |-> 5,
      days_completed |-> <<1, 2>>, achievements |-> <<"first_problem", "streak_28">>],
     [activity_log |-> (0 :> [count |-> 1, problems |-> <<"two-sum">>]),
      trackers |-> [leetcode_problems |-> 3], tracker_log |-> (0 :> [leetcode_problems |-> 3])]}

\* the four fields, each present or absent
FourFields ==
    {PointsRecord(ps, bs, sk, bp) :
        ps \in Optional(FewProblemsSolved), bs \in Optional({0, 7, 14}),
        sk \in {<<>>, <<<<Submission("approved"), Submission("pending")>>>>},
        bp \in Optional(BonusLists)}

\* record and other agree on the four fields; before keeps what record held
\* when it was handed over
RecordPairs ==
    {[record |-> four @@ o1, other |-> four @@ o2, before |-> four @@ o1] :
        four \in FourFields, o1 \in OtherFields, o2 \in OtherFields}

InitPointsPair ==
    /\ challenge_data \in Catalogs
    /\ now = Idle
    /\ store = NewUser
    /\ call \in {[fn |-> "calculate_points", arg |-> a, pc |-> "called", ret |-> <<>>] :
                    a \in RecordPairs}

\* calculate_points on record, on record again and on other, one call a step;
\* the method reads its argument and self.challenge_data and assigns to neither
ReturnCalculatePointsInTurn ==
    /\ call.fn = "calculate_points"
    /\ call.pc = "called"
    /\ LET data == IF Len(call.ret) < 2 THEN call.arg.record ELSE call.arg.other
       IN  call' = [call EXCEPT !.ret = Append(@, calculate_points(data)),
                                !.pc = IF Len(call.ret) = 2 THEN "returned" ELSE "called"]
    /\ UNCHANGED <<challenge_data, now, store>>

NextPointsPair == ReturnCalculatePointsInTurn

SpecPointsPair == InitPointsPair /\ [][NextPointsPair]_vars

\* C16: calculate_points is a function of problems_solved, best_streak,
\* skool_submissions and bonus_problems alone: two calls on one record return
\* the same points, the record is as it was before the calls, and a record
\* that agrees on the four fields gets the same points whatever its
\* achievements, current_streak, counters, stored points, logs or trackers.
C16_PointsDependOnFourFields ==
    (call.fn = "calculate_points" /\ call.pc = "returned") =>
        /\ call.ret[1] = call.ret[2]
        /\ call.arg.record = call.arg.before
        /\ call.ret[1] = call.ret[3]

\* a stored current_streak of 28 next to a best_streak of 7: 50 both times
C16_Witness ==
    /\ call.fn = "calculate_points"
    /\ call.pc = "returned"
    /\ Get(call.arg.record, "best_streak", 0) = 7
    /\ Get(call.arg.record, "current_streak", 0) = 28
    /\ Get(call.arg.other, "current_streak", 0) = 0
    /\ Get(call.arg.record, "points", 0) # Get(call.arg.other, "points", 0)
    /\ call.ret[1] >= 50

----------------------------------------------------------------------------
(* Specification of calculate_points and check_achievements over records    *)
(* with unknown ids and with keys of other forms than day_<integer>         *)

\* day_1, x_1, day_1_x, _2, invalid_key, day_abc, day_, day, 1
OddKeys ==
    {DayKey(1),
     <<"x", "_", "1">>,
     <<"d", "a", "y", "_", "1", "_", "x">>,
     <<"_", "2">>,
     <<"i", "n", "v", "a", "l", "i", "d", "_", "k", "e", "y">>,
     <<"d", "a", "y", "_", "a", "b", "c">>,
     <<"d", "a", "y", "_">>,
     <<"d", "a", "y">>,
     <<"1">>}

DegradeInputs ==
    {<<>>}
      \cup {"problems_solved" :> ProblemsSolvedOf(solves) :
              solves \in SeqsUpTo(OddKeys \X {"two-sum", "trapping-rain-water", "not-a-real-id"},
                                  MaxSolves)}

InitDegrade ==
    /\ challenge_data \in Catalogs
    /\ now = Idle
    /\ store = NewUser
    /\ call \in {[fn |-> "calculate_points, check_achievements", arg |-> a,
                  pc |-> "called", ret |-> <<>>] : a \in DegradeInputs}

ReturnPointsAndAchievements ==
    /\ call.fn = "calculate_points, check_achievements"
    /\ call.pc = "called"
    /\ call' = [call EXCEPT !.pc = "returned",
                            !.ret = [points |-> calculate_points(call.arg),
                                     achievements |-> check_achievements(call.arg)]]
    /\ UNCHANGED <<challenge_data, now, store>>

NextDegrade == ReturnPointsAndAchievements

SpecDegrade == InitDegrade /\ [][NextDegrade]_vars

DegradeReturned ==
    call.fn = "calculate_points, check_achievements" /\ call.pc = "returned"

\* key is day_ followed by decimal digits
IsDayKeyForm(key) ==
    /\ Len(key) > 4
    /\ SubSeq(key, 1, 4) = <<"d", "a", "y", "_">>
    /\ \A i \in 5..Len(key) : IsDigit(key[i])

\* the text of key between its first underscore and the next one (or its end)
AfterFirstUnderscore(key) ==
    LET first == CHOOSE i \in 1..Len(key) :
                    key[i] = "_" /\ \A j \in 1..(i - 1) : key[j] # "_"
        stops == {j \in (first + 1)..Len(key) : key[j] = "_"} \cup {Len(key) + 1}
        stop  == CHOOSE j \in stops : \A k \in stops : j <= k
    IN  SubSeq(key, first + 1, stop - 1)

\* key has an underscore and decimal digits right after the first one
HasDayNumber(key) ==
    /\ \E i \in 1..Len(key) : key[i] = "_"
    /\ AfterFirstUnderscore(key) # <<>>
    /\ \A i \in 1..Len(AfterFirstUnderscore(key)) : IsDigit(AfterFirstUnderscore(key)[i])

\* the problems of catalog day n
ProblemsOfDay(n) == UNION {Range(d.problems) : d \in {x \in CatalogDays : x.day = n}}

\* what the solve s = (key, position) is worth as a solve of the day whose
\* number stands after the key's first underscore
CreditAsDay(ps, s) ==
    ValueAmong(ps[s[1]][s[2]], ProblemsOfDay(DigitsValue(AfterFirstUnderscore(s[1]), 0)))

OnlyUnknownIds(ps) == \A s \in SolvesOf(ps) : ps[s[1]][s[2]] \notin {p.id : p \in CatalogProblems}

\* C17 as stated: an empty record gives 0 points and no achievements, ids
\* unknown to the catalog add 0, and every key that is not of the form
\* day_<integer> is skipped, so the points are those of the day_<integer> keys.
C17_SkipsKeysNotOfDayForm ==
    DegradeReturned =>
        LET ps == Get(call.arg, "problems_solved", <<>>)
            credit == [s \in SolvesOf(ps) |->
                          IF IsDayKeyForm(s[1]) THEN CreditAsDay(ps, s) ELSE 0]
        IN  /\ DOMAIN call.arg = {} => (call.ret.points = 0 /\ call.ret.achievements = <<>>)
            /\ OnlyUnknownIds(ps) => call.ret.points = 0
            /\ call.ret.points = SumOver(credit, SolvesOf(ps))

\* C17 (amended): an empty record gives 0 points and no achievements, ids
\* unknown to the catalog add 0, and a key is skipped exactly when it has no
\* underscore or no integer between its first and second underscore; a key
\* such as x_1 or day_1_x is read as day 1 and its ids are credited as day 1's.
C17_SkipsKeysWithoutDayNumber ==
    DegradeReturned =>
        LET ps == Get(call.arg, "problems_solved", <<>>)
            credit == [s \in SolvesOf(ps) |->
                          IF HasDayNumber(s[1]) THEN CreditAsDay(ps, s) ELSE 0]
        IN  /\ DOMAIN call.arg = {} => (call.ret.points = 0 /\ call.ret.achievements = <<>>)
            /\ OnlyUnknownIds(ps) => call.ret.points = 0
            /\ call.ret.points = SumOver(credit, SolvesOf(ps))

\* two-sum recorded under x_1 and under day_abc: 10 points, for x_1
C17_Witness ==
    /\ DegradeReturned
    /\ challenge_data = Catalog
    /\ DOMAIN call.arg = {"problems_solved"}
    /\ call.arg.problems_solved =
          ProblemsSolvedOf(<<<<(<<"x", "_", "1">>), "two-sum">>,
                             <<(<<"d", "a", "y", "_", "a", "b", "c">>), "two-sum">>>>)
    /\ call.ret.points = 10
    /\ call.ret.achievements = <<>>

----------------------------------------------------------------------------
(* Enrollment *)

\* C18: a successful enroll_challenge stores (and answers with) a record with
\* enrolled true, start date now, empty days_completed, problems_solved and
\* achievements and zero total_problems_solved, current_streak, best_streak
\* and points; for it calculate_current_day is 1, calculate_points is 0 and
\* check_achievements returns nothing.
C18_EnrollCreatesFreshRecord ==
    [][(call' # call /\ call'.fn = "enroll_challenge" /\ call'.ret.code = 200) =>
          LET challenge == ChallengeOf(store')
          IN  /\ challenge = call'.ret.body.challenge
              /\ challenge.enrolled = TRUE
              /\ challenge.start_date =
                    [kind |-> "iso", ord |-> now.ord, tod |-> now.tod, suffix |-> ""]
              /\ challenge.days_completed = <<>>
              /\ DOMAIN challenge.problems_solved = {}
              /\ challenge.achievements = <<>>
              /\ challenge.total_problems_solved = 0
              /\ challenge.current_streak = 0
              /\ challenge.best_streak = 0
              /\ challenge.points = 0
              /\ calculate_current_day(challenge.start_date, now') = Ok(1)
              /\ calculate_points(challenge) = 0
              /\ check_achievements(challenge) = <<>>]_vars

\* an enrollment on calendar day 1 by a user who was enrolled on day 0
C18_Witness ==
    /\ call.fn = "enroll_challenge"
    /\ call.ret.code = 200
    /\ ChallengeOf(store) = call.ret.body.challenge
    /\ call.ret.body.challenge.start_date.ord = 1
    /\ now.ord = 1

----------------------------------------------------------------------------
(* Specification of the catalog accessors over drawn catalogs and arguments *)

\* f'Day {day}': a text is the list of its pieces, a literal or a digit each
DayText(day) == <<"Day ">> \o Str(day)

get_day_theme(day) ==
    LET days == get_challenge_days
        hit  == FirstAt(days, {i \in 1..Len(days) : days[i]["day"] = day})
    IN  IF hit = NotFound THEN DayText(day)
        ELSE IF "theme" \in DOMAIN hit[1] THEN <<hit[1]["theme"]>> ELSE DayText(day)

\* a catalog whose second day has no theme and repeats the id two-sum, and
\* whose third day has no problems
CatalogWithGaps ==
    [days |-> << [day |-> 1, theme |-> "Arrays & Hash Tables",
                  problems |-> <<Problem("two-sum", "Easy"), Problem("group-anagrams", "Medium")>>],
                 [day |-> 2, problems |-> <<Problem("two-sum", "Hard")>>],
                 [day |-> 3, theme |-> "Stack"] >>]

\* day numbers asked for: negative, 0, catalog days and days beyond them
AskedDays == (-1)..MaxDay \cup {29, 100}

AskedIds == ProblemIds \cup {"", "None"}

AccessorCalls ==
    {[fn |-> f, arg |-> [day |-> d], pc |-> "called", ret |-> <<>>] :
        f \in {"get_day_problems", "get_day_theme"}, d \in AskedDays}
      \cup {[fn |-> "get_problem", arg |-> [day |-> d, problem_id |-> p],
             pc |-> "called", ret |-> <<>>] : d \in AskedDays, p \in AskedIds}
      \cup {[fn |-> "get_problem_by_id", arg |-> [problem_id |-> p],
             pc |-> "called", ret |-> <<>>] : p \in AskedIds}

InitCatalog ==
    /\ challenge_data \in Catalogs \cup {CatalogWithGaps}
    /\ now = Idle
    /\ store = NewUser
    /\ call \in AccessorCalls

ReturnGetDayProblems ==
    /\ call.fn = "get_day_problems"
    /\ call.pc = "called"
    /\ call' = [call EXCEPT !.pc = "returned", !.ret = get_day_problems(call.arg.day)]
    /\ UNCHANGED <<challenge_data, now, store>>

ReturnGetDayTheme ==
    /\ call.fn = "get_day_theme"
    /\ call.pc = "called"
    /\ call' = [call EXCEPT !.pc = "returned", !.ret = get_day_theme(call.arg.day)]
    /\ UNCHANGED <<challenge_data, now, store>>

ReturnGetProblem ==
    /\ call.fn = "get_problem"
    /\ call.pc = "called"
    /\ call' = [call EXCEPT !.pc = "returned",
                            !.ret = get_problem(call.arg.day, call.arg.problem_id)]
    /\ UNCHANGED <<challenge_data, now, store>>

ReturnGetProblemById ==
    /\ call.fn = "get_problem_by_id"
    /\ call.pc = "called"
    /\ call' = [call EXCEPT !.pc = "returned", !.ret = get_problem_by_id(call.arg.problem_id)]
    /\ UNCHANGED <<challenge_data, now, store>>

NextCatalog ==
    \/ ReturnGetDayProblems
    \/ ReturnGetDayTheme
    \/ ReturnGetProblem
    \/ ReturnGetProblemById

SpecCatalog == InitCatalog /\ [][NextCatalog]_vars

\* the day numbers the catalog has
DayNumbers == {challenge_data.days[i].day : i \in 1..Len(challenge_data.days)}

\* the ids the catalog lists under day
IdsListedUnder(day) ==
    UNION {{Get(challenge_data.days[i], "problems", <<>>)[j].id :
                j \in 1..Len(Get(challenge_data.days[i], "problems", <<>>))} :
            i \in {k \in 1..Len(challenge_data.days) : challenge_data.days[k].day = day}}

\* the places (day position, problem position) where the catalog lists id
PlacesOf(id) ==
    UNION {{<<i, j>> : j \in {k \in 1..Len(Get(challenge_data.days[i], "problems", <<>>)) :
                                Get(challenge_data.days[i], "problems", <<>>)[k].id = id}} :
            i \in 1..Len(challenge_data.days)}

Earlier(a, b) == a[1] < b[1] \/ (a[1] = b[1] /\ a[2] <= b[2])

\* C19: the catalog accessors fall back safely: for a day number that the
\* catalog does not have, get_day_problems returns [], get_day_theme returns
\* 'Day <requested day>' and get_problem returns None; get_problem returns
\* None for an id not among the day's problems; get_problem_by_id returns the
\* first problem with the id in catalog day order, None when no day has it.
C19_AccessorsFallBack ==
    call.pc = "returned" =>
        /\ (call.fn = "get_day_problems" /\ call.arg.day \notin DayNumbers) =>
              call.ret = <<>>
        /\ (call.fn = "get_day_theme" /\ call.arg.day \notin DayNumbers) =>
              /\ call.ret = <<"Day ">> \o Str(call.arg.day)
              /\ (call.arg.day = 100 => call.ret = <<"Day ", "1", "0", "0">>)
              /\ (call.arg.day = -1 => call.ret = <<"Day ", "-", "1">>)
        /\ (call.fn = "get_problem" /\ call.arg.day \notin DayNumbers) =>
              call.ret = NotFound
        /\ (call.fn = "get_problem" /\ call.arg.problem_id \notin IdsListedUnder(call.arg.day)) =>
              call.ret = NotFound
        /\ call.fn = "get_problem_by_id" =>
              IF PlacesOf(call.arg.problem_id) = {} THEN call.ret = NotFound
              ELSE \E at \in PlacesOf(call.arg.problem_id) :
                      /\ \A other \in PlacesOf(call.arg.problem_id) : Earlier(at, other)
                      /\ call.ret = Found(challenge_data.days[at[1]].problems[at[2]])

\* two-sum is listed under day 1 (Easy) and day 2 (Hard): the Easy one is found
C19_Witness ==
    /\ call.pc = "returned"
    /\ call.fn = "get_problem_by_id"
    /\ challenge_data = CatalogWithGaps
    /\ call.arg.problem_id = "two-sum"
    /\ call.ret = Found(Problem("two-sum", "Easy"))

----------------------------------------------------------------------------
(* The day page: challenge_day (app/routes/challenge.py)                     *)

\* _get_metadata_value: private_metadata first, then public_metadata
get_metadata_value(user_data, key, default) ==
    IF DOMAIN user_data.private_metadata # {} /\ key \in DOMAIN user_data.private_metadata
    THEN user_data.private_metadata[key]
    ELSE Get(user_data.public_metadata, key, default)

\* is_admin(user): the user's is_admin flag, read like the other access flags
is_admin(user) == get_metadata_value(user, "is_admin", FALSE) = TRUE

\* a day limit of 30 for every user
MaxDayForAll(user_is_admin) == 30

\* max_day = 30 if user_is_admin else 28
MaxDayFor(user_is_admin) == IF user_is_admin THEN 30 ELSE 28

\* redirect(location); a text is the list of its pieces
Redirect(location) == Response(302, [location |-> location], FALSE)

\* the days of GET /challenge/day/<int:day>: the converter takes no sign
PageDays == {0, 1, 2, 3, 28, 29, 30, 31}

\* GET /challenge/day/<day> of the signed-in user
challenge_day ==
    \E day \in PageDays :
        LET user == store
            user_is_admin == is_admin(user)
            challenge == Get(user.public_metadata, "challenge", <<>>)
            current_day ==
                calculate_current_day(Get(challenge, "start_date", [kind |-> "text", text |-> ""]),
                                      now).value
            problems == get_day_problems(day)
            problems_solved == Get(challenge, "problems_solved", <<>>)
        IN  /\ call' = [fn |-> "challenge_day", arg |-> [day |-> day], pc |-> "returned",
                        ret |-> IF day < 1 \/ day > MaxDayFor(user_is_admin)
                                THEN Redirect(<<"/challenge">>)
                                ELSE IF ~Get(challenge, "enrolled", FALSE)
                                THEN Redirect(<<"/challenge">>)
                                ELSE IF day > current_day /\ ~is_admin(user)
                                THEN Redirect(<<"/challenge/day/">> \o Str(current_day))
                                ELSE Response(200,
                                        [template |-> "challenge/day.html",
                                         day |-> day,
                                         theme |-> get_day_theme(day),
                                         problems |-> problems,
                                         problem |-> IF problems # <<>>
                                                     THEN Found(problems[1]) ELSE NotFound,
                                         current_day |-> current_day,
                                         challenge_data |-> challenge,
                                         solved_ids |-> Get(problems_solved, DayKey(day), <<>>),
                                         is_day_complete |-> is_day_complete(day, problems_solved)],
                                        FALSE)]
            /\ UNCHANGED <<challenge_data, now, store>>

\* the record of a user who enrolled on calendar day ord and solved nothing
EnrolledOn(ord) ==
    [enrolled |-> TRUE,
     start_date |-> IsoFormat([ord |-> ord, tod |-> 0]),
     days_completed |-> <<>>,
     problems_solved |-> <<>>,
     total_problems_solved |-> 0,
     current_streak |-> 0,
     best_streak |-> 0,
     points |-> 0,
     achievements |-> <<>>,
     last_activity_date |-> IsoFormat([ord |-> ord, tod |-> 0])]

\* the record after both problems of day 1 were solved on the day of
\* enrollment, calendar day ord
DayOneSolvedOn(ord) ==
    [EnrolledOn(ord) EXCEPT
        !.problems_solved = DayKey(1) :> <<"two-sum", "group-anagrams">>,
        !.total_problems_solved = 2,
        !.days_completed = <<1>>,
        !.current_streak = 1,
        !.best_streak = 1,
        !.points = 30,
        !.achievements = <<"first_problem">>]
      @@ ("activity_log" :>
            (ord :> [count |-> 2, problems |-> <<"two-sum", "group-anagrams">>]))

\* the users who ask for a day page: admins and others, not enrolled, enrolled
\* today, yesterday, 27 days ago or longer ago, with day 1 solved or nothing
PageUsers ==
    {UserWith(Field("is_admin", a) @@ Field("challenge", c)) :
        a \in Optional(BOOLEAN),
        c \in {<<>>, <<[enrolled |-> FALSE]>>, <<DayOneSolvedOn(0)>>}
                \cup {<<EnrolledOn(o)>> : o \in {0, -1, -27, -DayHorizon}}}

InitDayPage ==
    /\ challenge_data = Catalog
    /\ now = Idle
    /\ store \in PageUsers
    /\ call = NoCall

NextDayPage ==
    \/ challenge_day
    \/ enroll_challenge
    \/ DayPasses

SpecDayPage == InitDayPage /\ [][NextDayPage]_vars

\* the user's current day: days since the start date plus one, within 1..28
CurrentDayOf(user) ==
    LET since == now.ord - ChallengeOf(user).start_date.ord + 1
    IN  IF since < 1 THEN 1 ELSE IF since > 28 THEN 28 ELSE since

Enrolled(user) == Get(ChallengeOf(user), "enrolled", FALSE)

\* day lies in 1..28, or in 1..30 for an admin
InDayRange(day, user) == 1 <= day /\ day <= (IF is_admin(user) THEN 30 ELSE 28)

\* C20: challenge_day renders day N only when the user's record is enrolled,
\* 1 <= N <= 28 (<= 30 for an admin) and N <= the user's current day unless
\* the user is an admin; every other request is redirected, a future day to
\* the current day's page and the rest to the challenge home; no request
\* changes the record.
C20_DayPageOnlyForAllowedDay ==
    [][(call' # call /\ call'.fn = "challenge_day") =>
          LET day == call'.arg.day
              allowed == /\ Enrolled(store)
                         /\ InDayRange(day, store)
                         /\ (day <= CurrentDayOf(store) \/ is_admin(store))
          IN  /\ store' = store
              /\ call'.ret.wrote = FALSE
              /\ allowed =>
                    /\ call'.ret.code = 200
                    /\ call'.ret.body.template = "challenge/day.html"
                    /\ call'.ret.body.day = day
              /\ ~allowed =>
                    /\ call'.ret.code = 302
                    /\ call'.ret.body.location =
                          (IF Enrolled(store) /\ InDayRange(day, store)
                           THEN <<"/challenge/day/">> \o Str(CurrentDayOf(store))
                           ELSE <<"/challenge">>)]_vars

\* day 29 asked by a user on day 28 who is no admin: sent to the challenge home
C20_Witness ==
    /\ call.fn = "challenge_day"
    /\ call.arg.day = 29
    /\ ~is_admin(store)
    /\ Enrolled(store)
    /\ CurrentDayOf(store) = 28
    /\ call.ret.code = 302
    /\ call.ret.body.location = <<"/challenge">>

----------------------------------------------------------------------------
(* Properties of complete_problem over sequences of requests *)

\* C23: in every record that complete_problem requests leave behind a fresh
\* enrollment, total_problems_solved is the number of ids recorded under all
\* day keys of problems_solved together, and no id stands twice under one key.
C23_TotalCountsRecordedSolves ==
    Enrolled(store) =>
        LET problems_solved == Get(StoredChallenge, "problems_solved", <<>>)
        IN  /\ StoredChallenge.total_problems_solved = Cardinality(SolvesOf(problems_solved))
            /\ \A k \in DOMAIN problems_solved :
                  \A i, j \in 1..Len(problems_solved[k]) :
                      problems_solved[k][i] = problems_solved[k][j] => i = j

\* two solves under the one key day_1
C23_Witness ==
    /\ Enrolled(store)
    /\ DOMAIN StoredChallenge.problems_solved = {DayKey(1)}
    /\ StoredChallenge.problems_solved[DayKey(1)] = <<"group-anagrams", "two-sum">>
    /\ StoredChallenge.total_problems_solved = 2

\* day or problem_id is missing from the body, or is 0 or the empty string
Incomplete(data) ==
    \/ "day" \notin DOMAIN data
    \/ "problem_id" \notin DOMAIN data
    \/ data.day = 0
    \/ data.problem_id = ""

\* C26: complete_problem answers a request whose day or problem_id is
\* missing or falsy with 400 'day and problem_id required' and a request of
\* a user who is not enrolled with 400 'Not enrolled in challenge'; in both
\* cases nothing is written and the stored record is as before.
C26_BadRequestsPersistNothing ==
    [][(call' # call /\ call'.fn = "complete_problem") =>
          /\ Incomplete(call'.arg) =>
                /\ call'.ret.code = 400
                /\ call'.ret.body = [error |-> "day and problem_id required"]
                /\ call'.ret.wrote = FALSE
                /\ store' = store
          /\ (~Incomplete(call'.arg) /\ ~Enrolled(store)) =>
                /\ call'.ret.code = 400
                /\ call'.ret.body = [error |-> "Not enrolled in challenge"]
                /\ call'.ret.wrote = FALSE
                /\ store' = store]_vars

\* day 0 sent by an enrolled user
C26_Witness ==
    /\ call.fn = "complete_problem"
    /\ DOMAIN call.arg = {"day", "problem_id"}
    /\ call.arg.day = 0
    /\ Enrolled(store)
    /\ call.ret.code = 400
    /\ call.ret.body.error = "day and problem_id required"

StreaksInOrder(challenge) ==
    /\ 0 <= challenge.current_streak
    /\ challenge.current_streak <= challenge.best_streak
    /\ challenge.best_streak <= 28

\* the record that a complete_problem request answered with, if it built one
Answered == call.fn = "complete_problem" /\ "challenge" \in DOMAIN call.ret.body

\* C27: every record persisted by enroll_challenge or complete_problem has
\* 0 <= current_streak <= best_streak <= 28, and the current_streak that
\* complete_problem writes is at most the current day of that request and at
\* most the number of distinct days in days_completed.
C27_StreaksOrderedAndBounded ==
    /\ Enrolled(store) => StreaksInOrder(StoredChallenge)
    /\ Answered =>
          LET challenge == call.ret.body.challenge
              since == challenge.last_activity_date.ord - challenge.start_date.ord + 1
              day_then == IF since < 1 THEN 1 ELSE IF since > 28 THEN 28 ELSE since
          IN  /\ StreaksInOrder(challenge)
              /\ challenge.current_streak <= day_then
              /\ challenge.current_streak <= Cardinality(Range(challenge.days_completed))

\* day 1 completed on day 1: current_streak 1, best_streak 1
C27_Witness ==
    /\ Answered
    /\ ChallengeOf(store) = call.ret.body.challenge
    /\ call.ret.body.challenge.current_streak = 1
    /\ call.ret.body.challenge.best_streak = 1
    /\ call.ret.body.challenge.days_completed = <<1>>

----------------------------------------------------------------------------
(* Solves reported late: a user who completed the first seven days on the   *)
(* day of enrollment and comes back on the days after it                    *)

MaxLate == 8     \* the most solves the record of the seven days takes
MaxEarly == 1    \* the most solves a record with fewer takes here

\* a catalog of seven days with one problem each
WeekDays ==
    << [day |-> 1, theme |-> "Arrays & Hash Tables", problems |-> <<Problem("two-sum", "Easy")>>],
       [day |-> 2, theme |-> "Two Pointers", problems |-> <<Problem("valid-palindrome", "Easy")>>],
       [day |-> 3, theme |-> "Stacks", problems |-> <<Problem("valid-parentheses", "Easy")>>],
       [day |-> 4, theme |-> "Binary Search", problems |-> <<Problem("binary-search", "Easy")>>],
       [day |-> 5, theme |-> "Linked Lists", problems |-> <<Problem("reverse-linked-list", "Easy")>>],
       [day |-> 6, theme |-> "Trees", problems |-> <<Problem("invert-binary-tree", "Easy")>>],
       [day |-> 7, theme |-> "Dynamic Programming", problems |-> <<Problem("climbing-stairs", "Easy")>>] >>

WeekCatalog == [days |-> WeekDays, point_values |-> DefaultPointValues]

\* the record after the problems of days 1 to 7 were solved in that order on
\* the day of enrollment, calendar day ord: every solve found current day 1,
\* so the streak written is 1
WeekSolvedOn(ord) ==
    [EnrolledOn(ord) EXCEPT
        !.problems_solved = [k \in {DayKey(d) : d \in 1..7} |->
                                <<WeekDays[CHOOSE d \in 1..7 : DayKey(d) = k].problems[1].id>>],
        !.total_problems_solved = 7,
        !.days_completed = <<1, 2, 3, 4, 5, 6, 7>>,
        !.current_streak = 1,
        !.best_streak = 1,
        !.points = 70,
        !.achievements = <<"first_problem">>]
      @@ ("activity_log" :>
            (ord :> [count |-> 7,
                     problems |-> [d \in 1..7 |-> WeekDays[d].problems[1].id]]))

InitLate ==
    /\ challenge_data = WeekCatalog
    /\ now = [ord |-> -6, tod |-> 0]
    /\ store \in {UserWith("challenge" :> EnrolledOn(-6)),
                  UserWith("challenge" :> WeekSolvedOn(-6))}
    /\ call = NoCall

complete_problem_late ==
    complete_problem_within(IF Get(StoredChallenge, "total_problems_solved", 0) >= Len(WeekDays)
                            THEN MaxLate ELSE MaxEarly)

NextLate ==
    \/ complete_problem_late
    \/ DayPasses

SpecLate == InitLate /\ [][NextLate]_vars

\* a complete_problem step of an enrolled user that reports a solve which is
\* not recorded yet and whose id is not a problem of its day in the catalog
OffCatalogSolve ==
    /\ call' # call
    /\ call'.fn = "complete_problem"
    /\ ~Incomplete(call'.arg)
    /\ Enrolled(store)
    /\ ~AlreadySolved(ChallengeOf(store), call'.arg.day, call'.arg.problem_id)
    /\ call'.arg.problem_id \notin CatalogIdsOf(call'.arg.day)

\* what such a step does to the record apart from the points
OffCatalogSolveRecorded ==
    LET data == call'.arg
        before == ChallengeOf(store)
        after == call'.ret.body.challenge
        today == DateOf(now)
        entry == Get(Get(before, "activity_log", <<>>), today, [count |-> 0, problems |-> <<>>])
    IN  /\ call'.ret.code = 200
        /\ call'.ret.body.status = "success"
        /\ store' = store \/ ChallengeOf(store') = after
        /\ InList(data.problem_id, after.problems_solved[DayKey(data.day)])
        /\ after.total_problems_solved = Get(before, "total_problems_solved", 0) + 1
        /\ after.activity_log[today] =
              [count |-> entry.count + 1, problems |-> Append(entry.problems, data.problem_id)]
        /\ "first_problem" \in Range(after.achievements)
        /\ "first_problem" \notin Range(Get(before, "achievements", <<>>))
              => InList("first_problem", call'.ret.body.new_achievements)
        /\ after.days_completed = Get(before, "days_completed", <<>>)

----------------------------------------------------------------------------
(* Bonus problems and community posts.  A URL is the list of its pieces:    *)
(* every "/", "?" and blank is a piece of its own, and so is every run of   *)
(* other characters between them.                                           *)

MaxEntries == 2      \* solves, bonus problems and posts a user's metadata takes

Https == <<"https:", "/", "/">>

TwoSumUrl == Https \o <<"leetcode.com", "/", "problems", "/", "two-sum">>

\* what requests send as url: the two-sum page with and without trailing
\* slashes and blanks around it, its description page, another problem with
\* a query, no text, blanks, a page that is no problem, and a page of
\* another site that carries a problem address in its query
BonusUrls ==
    {TwoSumUrl,
     TwoSumUrl \o <<"/">>,
     <<" ">> \o TwoSumUrl \o <<"/", "/", " ">>,
     TwoSumUrl \o <<"/", "description", "/">>,
     Https \o <<"leetcode.com", "/", "problems", "/", "3sum", "/", "?", "envType=daily-question">>,
     <<>>,
     <<" ">>,
     Https \o <<"leetcode.com", "/", "problemset", "/">>,
     Https \o <<"leetcode.com", "/", "problems", "/">>,
     Https \o <<"example.com", "/", "?", "next=", "leetcode.com", "/", "problems", "/", "two-sum">>}

\* JSON bodies of POST /challenge/bonus-problem, one of them without url
BonusRequests == {"url" :> u : u \in BonusUrls} \cup {<<>>}

\* a comparison of the texts as they are
RStripNothing(text) == text

\* str.rstrip('/')
RStripSlash(text) ==
    LET inside == {i \in 1..Len(text) : text[i] # "/"}
    IN  IF inside = {} THEN <<>>
        ELSE SubSeq(text, 1, CHOOSE i \in inside : \A j \in inside : i >= j)

\* part in text
Contains(text, part) ==
    \E i \in 1..(Len(text) - Len(part) + 1) : SubSeq(text, i, i + Len(part) - 1) = part

\* urlparse(url).path: what follows scheme and host, up to the query
UrlPath(url) ==
    LET marks == {i \in 1..Len(url) : url[i] \in {"?", "#"}}
        end == IF marks = {} THEN Len(url) ELSE (CHOOSE i \in marks : \A j \in marks : i <= j) - 1
        whole == SubSeq(url, 1, end)
        hosted == Len(whole) >= 3 /\ whole[1] \in {"https:", "http:"}
                    /\ whole[2] = "/" /\ whole[3] = "/"
        slashes == {i \in 4..Len(whole) : whole[i] = "/"}
    IN  IF ~hosted THEN whole
        ELSE IF slashes = {} THEN <<>>
        ELSE SubSeq(whole, CHOOSE i \in slashes : \A j \in slashes : i <= j, Len(whole))

\* re.search(r'/problems/([^/?]+)', path): the group of the leftmost match
extract_leetcode_slug(url) ==
    LET path == UrlPath(url)
        hits == {i \in 1..(Len(path) - 3) :
                    /\ SubSeq(path, i, i + 2) = <<"/", "problems", "/">>
                    /\ path[i + 3] # "/"}
    IN  IF hits = {} THEN NotFound
        ELSE Found(path[(CHOOSE i \in hits : \A j \in hits : i <= j) + 3])

\* problem_slug.replace('-', ' ').title()
TitleOf(problem_slug) ==
    CASE problem_slug = "two-sum" -> "Two Sum"
      [] problem_slug = "3sum" -> "3Sum"
      [] OTHER -> problem_slug

\* f"bonus:{problem_slug}"
BonusTag(problem_slug) ==
    CASE problem_slug = "two-sum" -> "bonus:two-sum"
      [] problem_slug = "3sum" -> "bonus:3sum"
      [] OTHER -> "bonus:"

\* any(existing.rstrip('/') == normalized_url for existing in existing_urls)
AlreadyAdded(bonus_problems, url) ==
    \E i \in 1..Len(bonus_problems) :
        RStripSlash(bonus_problems[i].url) = RStripSlash(url)

\* the solves, bonus problems and posts in a user's metadata
Entries(user) ==
    Get(ChallengeOf(user), "total_problems_solved", 0)
      + Len(Get(ChallengeOf(user), "bonus_problems", <<>>))
      + Len(Get(user.public_metadata, "skool_submissions", <<>>))

\* POST /challenge/bonus-problem; the result of update_user_metadata is not
\* looked at
submit_bonus_problem ==
    \E data \in BonusRequests, clerk_ok \in BOOLEAN :
        LET url == Strip(Get(data, "url", <<>>))
            challenge == StoredChallenge
            bonus_before == Get(challenge, "bonus_problems", <<>>)
            problem_slug == extract_leetcode_slug(url)
            requested == [fn |-> "submit_bonus_problem", arg |-> data, pc |-> "returned", ret |-> <<>>]
            Refused(code, body) ==
                /\ call' = [requested EXCEPT !.ret = Response(code, body, FALSE)]
                /\ UNCHANGED <<challenge_data, now, store>>
        IN  IF url = <<>>
            THEN Refused(400, [error |-> "URL required"])
            ELSE IF ~Contains(url, <<"leetcode.com", "/", "problems", "/">>)
            THEN Refused(400, [error |-> "Invalid LeetCode problem URL"])
            ELSE IF ~Get(challenge, "enrolled", FALSE)
            THEN Refused(400, [error |-> "Not enrolled in challenge"])
            ELSE IF AlreadyAdded(bonus_before, url)
            THEN Refused(200, [status |-> "already_added"])
            ELSE IF problem_slug = NotFound
            THEN Refused(400, [error |-> "Could not extract problem name from URL"])
            ELSE LET bonus_problems ==
                        Append(bonus_before, [url |-> url,
                                              name |-> TitleOf(problem_slug[1]),
                                              added_at |-> IsoFormat(now)])
                     today == DateOf(now)
                     log_before == Get(challenge, "activity_log", <<>>)
                     entry == Get(log_before, today, [count |-> 0, problems |-> <<>>])
                     activity_log ==
                        Put(log_before, today,
                            [count |-> entry.count + 1,
                             problems |-> Append(entry.problems, BonusTag(problem_slug[1]))])
                     logged == Put(Put(challenge, "bonus_problems", bonus_problems),
                                   "activity_log", activity_log)
                     updated == Put(logged, "points", PointsRecalculated(challenge, logged))
                 IN  /\ Entries(store) < MaxEntries
                     /\ store' = IF clerk_ok
                                 THEN UserWith(Put(store.public_metadata, "challenge", updated))
                                 ELSE store
                     /\ call' = [requested EXCEPT !.ret =
                                    Response(200, [status |-> "success",
                                                   bonus_problems |-> bonus_problems,
                                                   total_points |-> updated.points], TRUE)]
                     /\ UNCHANGED <<challenge_data, now>>

SkoolUrl == Https \o <<"www.", "skool.com", "/", "community", "/", "my-post">>

\* JSON bodies of POST /challenge/submit-skool: posts for day 1 and day 2, and
\* bodies without day or url, with day 0, with no text and with another site
SkoolRequests ==
    {("day" :> d) @@ ("url" :> SkoolUrl) : d \in {1, 2}}
      \cup {<<>>, "day" :> 1, "url" :> SkoolUrl,
            ("day" :> 0) @@ ("url" :> SkoolUrl),
            ("day" :> 1) @@ ("url" :> <<>>),
            ("day" :> 1) @@ ("url" :> TwoSumUrl)}

\* a submission that is stored as approved
NewSubmissionApproved(day, url) ==
    [day |-> day, url |-> url, submitted_at |-> IsoFormat(now), status |-> "approved"]

\* the dict that submit_skool appends
NewSubmission(day, url) ==
    [day |-> day, url |-> url, submitted_at |-> IsoFormat(now), status |-> "pending"]

\* POST /challenge/submit-skool
submit_skool ==
    \E data \in SkoolRequests, clerk_ok \in BOOLEAN :
        LET requested == [fn |-> "submit_skool", arg |-> data, pc |-> "returned", ret |-> <<>>]
            public_meta == store.public_metadata
        IN  IF NotGiven(data, "day", 0) \/ NotGiven(data, "url", <<>>)
            THEN /\ call' = [requested EXCEPT !.ret =
                                Response(400, [error |-> "day and url required"], FALSE)]
                 /\ UNCHANGED <<challenge_data, now, store>>
            ELSE IF ~Contains(data.url, <<"skool.com">>)
            THEN /\ call' = [requested EXCEPT !.ret =
                                Response(400, [error |-> "Invalid Skool URL"], FALSE)]
                 /\ UNCHANGED <<challenge_data, now, store>>
            ELSE LET submissions ==
                        Append(Get(public_meta, "skool_submissions", <<>>),
                               NewSubmission(data.day, data.url))
                 IN  /\ Entries(store) < MaxEntries
                     /\ store' = IF clerk_ok
                                 THEN UserWith(Put(public_meta, "skool_submissions", submissions))
                                 ELSE store
                     /\ call' = [requested EXCEPT !.ret =
                                    Response(200, [status |-> "success",
                                                   message |-> "Submission received"], TRUE)]
                     /\ UNCHANGED <<challenge_data, now>>

\* JSON bodies of POST /challenge/admin/approve-submission; submission_index
\* 0 is the first submission
ApproveRequests ==
    {("user_id" :> "user_1") @@ ("submission_index" :> 0) @@ ("action" :> a) :
        a \in {"approve", "reject", "pending"}}
      \cup {("user_id" :> "user_1") @@ ("action" :> "approve"),
            ("submission_index" :> 0) @@ ("action" :> "approve"),
            ("user_id" :> "user_1") @@ ("submission_index" :> 0)}

\* POST /challenge/admin/approve-submission of the signed-in user, behind
\* admin_required
approve_skool_submission ==
    \E data \in ApproveRequests :
        /\ call' = [fn |-> "approve_skool_submission", arg |-> data, pc |-> "returned",
                    ret |-> IF ~is_admin(store)
                            THEN Redirect(<<"/">>)
                            ELSE IF \/ NotGiven(data, "user_id", "")
                                    \/ "submission_index" \notin DOMAIN data
                                    \/ Get(data, "action", "") \notin {"approve", "reject"}
                            THEN Response(400, [error |-> "user_id, submission_index, and action required"], FALSE)
                            ELSE Response(200, [status |-> "success",
                                                message |-> <<"Submission ", data.action, "d">>],
                                          FALSE)]
        /\ UNCHANGED <<challenge_data, now, store>>

\* JSON bodies of POST /challenge/submit-skool-proof
ProofRequests == {"url" :> SkoolUrl, "url" :> (<<" ">> \o SkoolUrl), "url" :> <<" ">>,
                  "url" :> TwoSumUrl, <<>>}

\* POST /challenge/submit-skool-proof
submit_skool_proof ==
    \E data \in ProofRequests, clerk_ok \in BOOLEAN :
        LET url == Strip(Get(data, "url", <<>>))
            challenge == StoredChallenge
            requested == [fn |-> "submit_skool_proof", arg |-> data, pc |-> "returned", ret |-> <<>>]
            Refused(body) ==
                /\ call' = [requested EXCEPT !.ret = Response(400, body, FALSE)]
                /\ UNCHANGED <<challenge_data, now, store>>
        IN  IF url = <<>>
            THEN Refused([error |-> "URL required"])
            ELSE IF ~Contains(url, <<"skool.com">>)
            THEN Refused([error |-> "Please provide a valid Skool URL"])
            ELSE IF ~Get(challenge, "enrolled", FALSE)
            THEN Refused([error |-> "Not enrolled in challenge"])
            ELSE LET updated == Put(Put(challenge, "skool_proof_url", url),
                                    "skool_proof_submitted_at", IsoFormat(now))
                 IN  /\ store' = IF clerk_ok
                                 THEN UserWith(Put(store.public_metadata, "challenge", updated))
                                 ELSE store
                     /\ call' = [requested EXCEPT !.ret =
                                    Response(200, [status |-> "success",
                                                   message |-> "Proof submitted successfully"],
                                             TRUE)]
                     /\ UNCHANGED <<challenge_data, now>>

\* complete_problem for a user whose metadata takes MaxEntries entries
complete_problem_entries ==
    complete_problem_within(Get(StoredChallenge, "total_problems_solved", 0)
                              + (IF Entries(store) < MaxEntries THEN 1 ELSE 0))

\* the record of a user who reports solves and bonus problems
NextBonus ==
    \/ enroll_challenge
    \/ complete_problem_entries
    \/ submit_bonus_problem

SpecBonus == Init /\ [][NextBonus]_vars

\* a user with no challenge data yet, who is an admin or not
InitSkool ==
    /\ challenge_data = Catalog
    /\ now = Idle
    /\ store \in {NewUser, UserWith("is_admin" :> TRUE)}
    /\ call = NoCall

\* the metadata of a user who reports solves and community posts
NextSkool ==
    \/ enroll_challenge
    \/ complete_problem_entries
    \/ submit_skool
    \/ approve_skool_submission
    \/ submit_skool_proof

SpecSkool == InitSkool /\ [][NextSkool]_vars

----------------------------------------------------------------------------
(* Properties of the points and the bonus problems of the stored record *)

PointsOf(user) == Get(ChallengeOf(user), "points", 0)

BonusProblemsOf(user) == Get(ChallengeOf(user), "bonus_problems", <<>>)

\* C22: the stored points are recomputed, never accumulated: in every record
\* that enroll_challenge, a complete_problem with a new solve or a
\* submit_bonus_problem with a new problem persisted, points is
\* calculate_points of that record, and a non-negative integer.
C22_StoredPointsAreRecomputed ==
    Enrolled(store) =>
        /\ StoredChallenge.points = calculate_points(StoredChallenge)
        /\ StoredChallenge.points \in Nat

\* a solve and then a bonus problem: 10 points, not 10 + 10
C22_Witness ==
    /\ call.fn = "submit_bonus_problem"
    /\ call.ret.code = 200
    /\ call.ret.body.status = "success"
    /\ Len(BonusProblemsOf(store)) = 1
    /\ SolvedUnder(1) = {"two-sum"}
    /\ StoredChallenge.points = 10
    /\ call.ret.body.total_points = 10

\* the text without the slashes at its end
RECURSIVE WithoutTrailingSlashes(_)
WithoutTrailingSlashes(text) ==
    IF text # <<>> /\ text[Len(text)] = "/"
    THEN WithoutTrailingSlashes(SubSeq(text, 1, Len(text) - 1))
    ELSE text

\* no two entries of bonus_problems have the same URL up to trailing slashes
NoBonusTwice(bonus_problems) ==
    \A i, j \in 1..Len(bonus_problems) :
        WithoutTrailingSlashes(bonus_problems[i].url)
            = WithoutTrailingSlashes(bonus_problems[j].url) => i = j

\* a submit_bonus_problem step whose url is, up to trailing slashes, the url
\* of an entry of bonus_problems
SubmittedAgain ==
    /\ call' # call
    /\ call'.fn = "submit_bonus_problem"
    /\ "url" \in DOMAIN call'.arg
    /\ \E i \in 1..Len(BonusProblemsOf(store)) :
          WithoutTrailingSlashes(BonusProblemsOf(store)[i].url)
              = WithoutTrailingSlashes(call'.arg.url)

\* C24: bonus_problems is deduplicated by URL up to trailing slashes: no two
\* entries of a stored bonus_problems have the same URL once trailing slashes
\* are removed, and a submission of a URL that an entry has up to trailing
\* slashes answers already_added and leaves bonus_problems, points and the
\* activity log as they were.
C24_BonusProblemsDeduplicated ==
    [][/\ NoBonusTwice(BonusProblemsOf(store'))
       /\ SubmittedAgain =>
             /\ call'.ret.code = 200
             /\ call'.ret.body = [status |-> "already_added"]
             /\ call'.ret.wrote = FALSE
             /\ store' = store]_vars

\* the two-sum page submitted again with a trailing slash, and with it the
\* description page of the same problem as a second entry
C24_Witness ==
    /\ call.fn = "submit_bonus_problem"
    /\ call.arg = ("url" :> (TwoSumUrl \o <<"/">>))
    /\ call.ret.body = [status |-> "already_added"]
    /\ Len(BonusProblemsOf(store)) = 2
    /\ BonusProblemsOf(store)[1].url = TwoSumUrl
    /\ BonusProblemsOf(store)[2].url = TwoSumUrl \o <<"/", "description", "/">>

----------------------------------------------------------------------------
(* Properties of the community posts *)

SubmissionsOf(user) == Get(user.public_metadata, "skool_submissions", <<>>)

\* the metadata of the user but for the list of submissions
BesidesSubmissions(user) ==
    [k \in DOMAIN user.public_metadata \ {"skool_submissions"} |-> user.public_metadata[k]]

\* C30: no operation credits a community post: submit_skool appends exactly
\* one entry of status 'pending' to the skool_submissions list at the top
\* level of the metadata and leaves the challenge record as it was,
\* approve_skool_submission changes nothing that is stored, and so no stored
\* challenge record holds a submission that calculate_points would count or
\* the achievement community_star.
C30_NoPostIsCredited ==
    [][/\ call'.fn = "submit_skool" =>
             \/ store' = store
             \/ /\ call'.ret.code = 200
                /\ Len(SubmissionsOf(store')) = Len(SubmissionsOf(store)) + 1
                /\ SubSeq(SubmissionsOf(store'), 1, Len(SubmissionsOf(store))) = SubmissionsOf(store)
                /\ SubmissionsOf(store')[Len(SubmissionsOf(store'))].status = "pending"
                /\ BesidesSubmissions(store') = BesidesSubmissions(store)
       /\ call'.fn = "approve_skool_submission" => store' = store
       /\ ApprovedCount(Get(ChallengeOf(store'), "skool_submissions", <<>>)) = 0
       /\ PointsOf(store') = calculate_points(Without(ChallengeOf(store'), "skool_submissions"))
       /\ "community_star" \notin AchievementsOf(store')]_vars

\* an admin who solved a problem and sent a post approves that post: the
\* answer is a success, the post is pending as before and the points are
\* those of the solve
C30_Witness ==
    /\ call.fn = "approve_skool_submission"
    /\ call.ret.code = 200
    /\ call.ret.body.message = <<"Submission ", "approve", "d">>
    /\ Len(SubmissionsOf(store)) = 1
    /\ SubmissionsOf(store)[1].status = "pending"
    /\ Enrolled(store)
    /\ SolvedUnder(1) = {"two-sum"}
    /\ PointsOf(store) = 10

----------------------------------------------------------------------------
(* Daily progress trackers.  A JSON value is <<>> for null and <<n>> for    *)
(* the number n.                                                            *)

Null == <<>>
Num(n) == <<n>>

\* value or 0
OrZero(value) == IF value = Null THEN 0 ELSE value[1]

cumulative_keys ==
    {"new_problems", "revised_problems", "github_commits", "skool_activity",
     "comments_done", "social_posts", "mock_interviews"}

default_trackers ==
    [k \in cumulative_keys \cup {"leetcode_rank"} |->
        IF k = "leetcode_rank" THEN Null ELSE Num(0)]

\* JSON bodies of POST /challenge/log-activity: counts for some of the keys,
\* a null, a rank, a rank of 0 and an empty body
TrackerRequests ==
    {<<>>,
     "new_problems" :> Num(2),
     ("new_problems" :> Num(1)) @@ ("github_commits" :> Num(3)),
     ("new_problems" :> Null) @@ ("github_commits" :> Num(1)),
     ("mock_interviews" :> Num(1)) @@ ("leetcode_rank" :> Num(1500)),
     ("new_problems" :> Num(0)) @@ ("leetcode_rank" :> Num(0)),
     "leetcode_rank" :> Null}

\* a total that takes the new value on top of what it holds
DeltaOfNewValueAlone(new_value, old_value) == new_value

\* delta = new_value - old_value
TrackerDelta(new_value, old_value) == new_value - old_value

\* POST /challenge/log-activity; the result of update_user_metadata is not
\* looked at
log_daily_activity ==
    \E data \in TrackerRequests, clerk_ok \in BOOLEAN :
        LET challenge == StoredChallenge
            requested == [fn |-> "log_daily_activity", arg |-> data, pc |-> "returned", ret |-> <<>>]
        IN  IF ~Get(challenge, "enrolled", FALSE)
            THEN /\ call' = [requested EXCEPT !.ret =
                                Response(400, [error |-> "Not enrolled in challenge"], FALSE)]
                 /\ UNCHANGED <<challenge_data, now, store>>
            ELSE LET trackers_before == Get(challenge, "trackers", default_trackers)
                     log_before == Get(challenge, "tracker_log", <<>>)
                     today == DateOf(now)
                     previous_entry == Get(log_before, today, <<>>)
                     ranked == "leetcode_rank" \in DOMAIN data /\ OrZero(data["leetcode_rank"]) # 0
                     trackers ==
                        [k \in DOMAIN trackers_before \cup cumulative_keys |->
                            IF k \in cumulative_keys
                            THEN Num(OrZero(Get(trackers_before, k, Num(0)))
                                       + TrackerDelta(OrZero(Get(data, k, Num(0))),
                                                      OrZero(Get(previous_entry, k, Num(0)))))
                            ELSE IF k = "leetcode_rank" /\ ranked THEN data["leetcode_rank"]
                            ELSE trackers_before[k]]
                     entry == [k \in cumulative_keys |-> Get(data, k, Num(0))]
                                @@ (IF ranked THEN "leetcode_rank" :> data["leetcode_rank"] ELSE <<>>)
                     updated == Put(Put(challenge, "trackers", trackers),
                                    "tracker_log", Put(log_before, today, entry))
                 IN  /\ store' = IF clerk_ok
                                 THEN UserWith(Put(store.public_metadata, "challenge", updated))
                                 ELSE store
                     /\ call' = [requested EXCEPT !.ret =
                                    Response(200, [status |-> "success", trackers |-> trackers], TRUE)]
                     /\ UNCHANGED <<challenge_data, now>>

\* the trackers of a user over the days of the calendar
NextTrackers ==
    \/ enroll_challenge
    \/ log_daily_activity
    \/ DayPasses

SpecTrackers == Init /\ [][NextTrackers]_vars

TrackersOf(user) == Get(ChallengeOf(user), "trackers", default_trackers)

TrackerLogOf(user) == Get(ChallengeOf(user), "tracker_log", <<>>)

\* the values of key over the dates of the log, a null counting as 0
LoggedTotal(tracker_log, key) ==
    SumOver([date \in DOMAIN tracker_log |-> OrZero(tracker_log[date][key])], DOMAIN tracker_log)

\* C25: the tracker totals follow the log: in every stored record whose
\* trackers started at zero, each of the seven cumulative trackers is the sum
\* over the dates of tracker_log of that key's value, and a log on a date
\* that has an entry replaces the entry of that date and leaves the entries
\* of the other dates as they were.
C25_TrackersAreTotalsOfTheLog ==
    [][/\ \A key \in cumulative_keys :
             OrZero(TrackersOf(store')[key]) = LoggedTotal(TrackerLogOf(store'), key)
       /\ (call'.fn = "log_daily_activity" /\ store' # store) =>
             /\ DOMAIN TrackerLogOf(store') = DOMAIN TrackerLogOf(store) \cup {DateOf(now)}
             /\ \A key \in cumulative_keys :
                   TrackerLogOf(store')[DateOf(now)][key] = Get(call'.arg, key, Num(0))
             /\ \A date \in DOMAIN TrackerLogOf(store) \ {DateOf(now)} :
                   TrackerLogOf(store')[date] = TrackerLogOf(store)[date]]_vars

\* 2 new problems on the first day; on the second day 1 problem and 3
\* commits: the totals are 3 and 3
C25_Witness ==
    /\ call.fn = "log_daily_activity"
    /\ call.ret.code = 200
    /\ DOMAIN TrackerLogOf(store) = {0, 1}
    /\ TrackerLogOf(store)[0]["new_problems"] = Num(2)
    /\ TrackerLogOf(store)[1]["new_problems"] = Num(1)
    /\ TrackersOf(store)["new_problems"] = Num(3)
    /\ TrackersOf(store)["github_commits"] = Num(3)

----------------------------------------------------------------------------
(* Two complete_problem requests of one user at the same time.  Each        *)
(* request loads the user at its start and writes the metadata at its end;  *)
(* nothing orders the two requests, so the steps of one may fall between    *)
(* the steps of the other.  call holds both requests.                       *)

Requests == {1, 2}

Waiting == [pc |-> "waiting"]

InitRace ==
    /\ challenge_data = Catalog
    /\ now = Idle
    /\ store = UserWith("challenge" :> EnrolledOn(0))
    /\ call = [fn |-> "complete_problem", pc |-> "running",
               requests |-> [r \in Requests |-> Waiting], writes |-> <<>>]

\* data = request.get_json(); user = get_current_user() (lines 145-152)
complete_problem_load ==
    \E r \in Requests, data \in CompleteRequests :
        /\ call.requests[r].pc = "waiting"
        /\ call' = [call EXCEPT !.requests[r] = [pc |-> "loaded", arg |-> data, user |-> store]]
        /\ UNCHANGED <<challenge_data, now, store>>

\* the user as it is stored when the request comes to write
UserAtWrite(loaded) == store

\* the user that the request works on: the one it loaded
UserOfRequest(loaded) == loaded

\* the rest of the handler, from the checks to the response (lines 149-221)
complete_problem_write ==
    \E r \in Requests, clerk_ok \in BOOLEAN :
        /\ call.requests[r].pc = "loaded"
        /\ LET data == call.requests[r].arg
               user == UserOfRequest(call.requests[r].user)
               challenge == Get(user.public_metadata, "challenge", <<>>)
               Answers(ret, saved) ==
                  call' = [call EXCEPT
                             !.requests[r] = [pc |-> "returned", arg |-> data,
                                              user |-> call.requests[r].user,
                                              ret |-> ret, saved |-> saved],
                             !.writes = IF saved THEN Append(@, r) ELSE @]
           IN  IF NotGiven(data, "day", 0) \/ NotGiven(data, "problem_id", "")
               THEN /\ Answers(Response(400, [error |-> "day and problem_id required"], FALSE), FALSE)
                    /\ UNCHANGED <<challenge_data, now, store>>
               ELSE IF ~Get(challenge, "enrolled", FALSE)
               THEN /\ Answers(Response(400, [error |-> "Not enrolled in challenge"], FALSE), FALSE)
                    /\ UNCHANGED <<challenge_data, now, store>>
               ELSE IF AlreadySolved(challenge, data.day, data.problem_id)
               THEN /\ Answers(Response(200, [status |-> "already_completed"], FALSE), FALSE)
                    /\ UNCHANGED <<challenge_data, now, store>>
               ELSE LET solved == AfterNewSolve(challenge, data.day, data.problem_id)
                        new_achievements == check_achievements(solved)
                        held == Get(solved, "achievements", <<>>)
                    IN  /\ \E achievements \in
                               (IF new_achievements # <<>>
                                THEN ListsOfSet(held \o new_achievements) ELSE {held}) :
                             LET updated ==
                                   Put(IF new_achievements # <<>>
                                       THEN Put(solved, "achievements", achievements)
                                       ELSE solved,
                                       "last_activity_date", IsoFormat(now))
                             IN  /\ store' = IF clerk_ok
                                             THEN UserWith(Put(user.public_metadata,
                                                               "challenge", updated))
                                             ELSE store
                                 /\ Answers(Response(200, [status |-> "success",
                                                            challenge |-> updated,
                                                            new_achievements |-> new_achievements],
                                                      TRUE), clerk_ok)
                        /\ UNCHANGED <<challenge_data, now>>

NextRace ==
    \/ complete_problem_load
    \/ complete_problem_write

SpecRace == InitRace /\ [][NextRace]_vars

\* both requests recorded a solve that was new to what they loaded, both
\* updates succeeded, and the two solves are not the same
TwoSolvesWritten ==
    /\ \A r \in Requests : call.requests[r].pc = "returned" /\ call.requests[r].saved
    /\ call.requests[1].arg # call.requests[2].arg

SolveOf(r) == <<DayKey(call.requests[r].arg.day), call.requests[r].arg.problem_id>>

\* the solves of a record as (day key, id) pairs
SolvePairs(challenge) ==
    LET problems_solved == Get(challenge, "problems_solved", <<>>)
    IN  UNION {{<<k, problems_solved[k][i]>> : i \in 1..Len(problems_solved[k])} :
                  k \in DOMAIN problems_solved}

\* C21: two complete_problem requests at the same time can lose an update:
\* when both loaded the same record before either wrote, the record persisted
\* last is the one of the request that wrote last and holds only that
\* request's solve on top of the loaded record, with the counters derived
\* from it; when the request that wrote second loaded what the first had
\* written, the stored record holds both solves.
C21_ConcurrentSolvesLoseAnUpdate ==
    TwoSolvesWritten =>
        LET first == call.writes[1]
            second == call.writes[2]
            loaded == ChallengeOf(call.requests[first].user)
        IN  /\ call.requests[second].user = call.requests[first].user =>
                  /\ StoredChallenge = call.requests[second].ret.body.challenge
                  /\ SolvePairs(StoredChallenge) = SolvePairs(loaded) \cup {SolveOf(second)}
                  /\ SolveOf(first) \notin SolvePairs(StoredChallenge)
                  /\ StoredChallenge.total_problems_solved
                        = Get(loaded, "total_problems_solved", 0) + 1
            /\ ChallengeOf(call.requests[second].user) = call.requests[first].ret.body.challenge =>
                  /\ SolvePairs(StoredChallenge)
                        = SolvePairs(loaded) \cup {SolveOf(first), SolveOf(second)}
                  /\ StoredChallenge.total_problems_solved
                        = Get(loaded, "total_problems_solved", 0) + 2

\* both requests loaded the fresh record; two-sum was written first and
\* group-anagrams last: the stored record holds group-anagrams alone
C21_Witness ==
    /\ TwoSolvesWritten
    /\ call.requests[1].user = call.requests[2].user
    /\ call.writes = <<1, 2>>
    /\ call.requests[1].arg = ("day" :> 1) @@ ("problem_id" :> "two-sum")
    /\ call.requests[2].arg = ("day" :> 1) @@ ("problem_id" :> "group-anagrams")
    /\ StoredChallenge.problems_solved = (DayKey(1) :> <<"group-anagrams">>)
    /\ StoredChallenge.total_problems_solved = 1
    /\ StoredChallenge.points = 20

====
